---- MODULE Spec2Model ----
(***************************************************************************)
(* A model of the anisotropic SGWB synthesis of GWSpace                    *)
(* (src/gwspace/SGWB.py) and of the helpers of src/gwspace/utils.py.       *)
(*                                                                         *)
(* Numbers.  The program works in floating point; the model works in exact *)
(* arithmetic over the values the program's formulas produce:              *)
(*   - a Num is (re + i*im)/den * pi^(pe/2), or a non-finite value (the    *)
(*     inf / nan numpy produces on a division by zero);                    *)
(*   - a Surd is s*sqrt(n/d) (a Clebsch-Gordan coefficient), and a beta    *)
(*     entry is a Surd with the common factor 1/sqrt(4 pi) left implicit.  *)
(***************************************************************************)
EXTENDS Integers, Sequences, FiniteSets, TLC

VARIABLES
    pc,     \* position of SGWB.__init__ (the stage that runs next)
    args,   \* the constructor's arguments
    self,   \* the attributes of the SGWB instance set so far
    loc,    \* the constructor's local variables
    exc,    \* the exception that ended the constructor, or "none"
    rng,    \* the state of numpy's global random generator (process wide)
    run,    \* how many constructions this process has started
    prev,   \* the spectra of the previous construction, for comparison
    ext,    \* what the external collaborators (healpy, response, Orbit) return
    bt,     \* calc_beta's loop state and the tensor it fills
    call    \* one call of a function or method on its own, and its outcome

vars == <<pc, args, self, loc, exc, rng, run, prev, ext, bt, call>>

(***************************************************************************)
(* Bounds of the model.                                                    *)
(***************************************************************************)
MaxLmax == 1        \* largest blmax of a construction and of calc_beta runs
MaxIdxLmax == 3     \* largest lmax handed to idx_2_alm on its own
IdxSlack == 4       \* how far below 0 and above (lmax+1)^2 the index ii goes
MaxBinom == 5       \* BinomialCoefficient's arguments range over -2..MaxBinom
MaxEps == 4         \* epsilon's arguments range over 0..MaxEps

(***************************************************************************)
(* Integer helpers.                                                        *)
(***************************************************************************)
Abs(x) == IF x < 0 THEN -x ELSE x

Sign(x) == IF x < 0 THEN -1 ELSE IF x = 0 THEN 0 ELSE 1

Min2(a, b) == IF a <= b THEN a ELSE b

Max2(a, b) == IF a >= b THEN a ELSE b

RECURSIVE GcdNat(_, _)
GcdNat(a, b) == IF b = 0 THEN a ELSE GcdNat(b, a % b)

Gcd(a, b) == GcdNat(Abs(a), Abs(b))

(* (-1)^k for an integer k >= 0 *)
MinusOnePow(k) == IF k % 2 = 0 THEN 1 ELSE -1

(***************************************************************************)
(* src/gwspace/utils.py: Factorial and BinomialCoefficient.                *)
(* Python's true division gives a float; for the exact quotients that      *)
(* occur here the float is the exact value, modelled as a reduced fraction *)
(* <<numerator, denominator>>.                                             *)
(***************************************************************************)
RECURSIVE Factorial(_)
Factorial(n) ==
    IF n < 0 THEN "inf"
    ELSE IF n = 0 THEN 1
    ELSE n * Factorial(n - 1)

TrueDiv(q, b) ==
    LET n == q[1]
        d == q[2] * b
        g == Gcd(n, d)
    IN  <<n \div g, d \div g>>

BinomialCoefficient(n, k) ==
    IF 0 <= k /\ k <= n
    THEN TrueDiv(TrueDiv(<<Factorial(n), 1>>, Factorial(k)), Factorial(n - k))
    ELSE <<0, 1>>

(***************************************************************************)
(* healpy.Alm, as SGWB.py uses it (lmax = mmax).                           *)
(*   getsize(lmax)     = mmax*(2*lmax+1-mmax)//2 + lmax + 1                *)
(*   getidx(lmax,l,m)  = m*(2*lmax+1-m)//2 + l                             *)
(*   getlm(lmax,i):  m = ceil(((2*lmax+1) - sqrt((2*lmax+1)^2             *)
(*                              - 8*(i-lmax)))/2),                         *)
(*                   l = i - m*(2*lmax+1-m)//2                             *)
(* getlm checks nothing about i: a negative i makes the square root larger *)
(* than 2*lmax+1 and m negative.  The ceiling is computed over the         *)
(* integers: m is the least integer with sqrt(D) >= A - 2m.                *)
(***************************************************************************)
getsize(lmax) == (lmax * (2 * lmax + 1 - lmax)) \div 2 + lmax + 1

getidx(lmax, l, m) == (m * (2 * lmax + 1 - m)) \div 2 + l

getlm(lmax, i) ==
    LET A == 2 * lmax + 1
        D == A * A - 8 * (i - lmax)
        AtLeast(m) == (A - 2 * m <= 0) \/ ((A - 2 * m) * (A - 2 * m) <= D)
        lo == -(Abs(i) + lmax + 2)
        m == CHOOSE x \in lo .. (lmax + 1) : AtLeast(x) /\ ~AtLeast(x - 1)
    IN  [l |-> i - ((m * (A - m)) \div 2), m |-> m]

(***************************************************************************)
(* SGWB.idx_2_alm (static): index --> (l, m), negative m included.         *)
(* The result records the exception raised, if any.                        *)
(***************************************************************************)
ConversionError == "ValueError: Something wrong with ind -> (l, m) conversion"

(* a plausible slip: the sign of m is not flipped in the upper region *)
idx_2_alm_no_negate(lmax, ii) ==
    LET alm_size == getsize(lmax)
    IN  IF ii >= 2 * alm_size - lmax - 1
        THEN [raised |-> "ValueError: Index larger than acceptable", l |-> 0, m |-> 0]
        ELSE IF ii < alm_size
        THEN [raised |-> "none", l |-> getlm(lmax, ii).l, m |-> getlm(lmax, ii).m]
        ELSE LET lm == getlm(lmax, ii - alm_size + lmax + 1)
             IN  IF lm.m = 0
                 THEN [raised |-> ConversionError, l |-> 0, m |-> 0]
                 ELSE [raised |-> "none", l |-> lm.l, m |-> lm.m]

(* a plausible slip: the offset lmax + 1 that skips the m = 0 block is left out *)
idx_2_alm_no_offset(lmax, ii) ==
    LET alm_size == getsize(lmax)
    IN  IF ii >= 2 * alm_size - lmax - 1
        THEN [raised |-> "ValueError: Index larger than acceptable", l |-> 0, m |-> 0]
        ELSE IF ii < alm_size
        THEN [raised |-> "none", l |-> getlm(lmax, ii).l, m |-> getlm(lmax, ii).m]
        ELSE LET lm == getlm(lmax, ii - alm_size)
             IN  IF lm.m = 0
                 THEN [raised |-> ConversionError, l |-> 0, m |-> 0]
                 ELSE [raised |-> "none", l |-> lm.l, m |-> -lm.m]

idx_2_alm(lmax, ii) ==
    LET alm_size == getsize(lmax)
    IN  IF ii >= 2 * alm_size - lmax - 1
        THEN [raised |-> "ValueError: Index larger than acceptable", l |-> 0, m |-> 0]
        ELSE IF ii < alm_size
        THEN [raised |-> "none", l |-> getlm(lmax, ii).l, m |-> getlm(lmax, ii).m]
        ELSE LET lm == getlm(lmax, ii - alm_size + lmax + 1)
             IN  IF lm.m = 0
                 THEN [raised |-> ConversionError, l |-> 0, m |-> 0]
                 ELSE [raised |-> "none", l |-> lm.l, m |-> -lm.m]

(***************************************************************************)
(* Exact fractions <<n, d>> (d > 0, reduced) and surds s*sqrt(n/d).        *)
(***************************************************************************)
RNorm(n, d) ==
    LET g == Gcd(n, d)
        sg == IF d < 0 THEN -1 ELSE 1
    IN  IF n = 0 THEN <<0, 1>> ELSE <<sg * (n \div g), sg * (d \div g)>>

(* q * x / y for integers x, y > 0, reducing before multiplying *)
RScale(q, x, y) ==
    LET g1 == Gcd(x, q[2])
        g2 == Gcd(y, q[1])
        x1 == x \div g1
        d1 == q[2] \div g1
        y1 == IF q[1] = 0 THEN 1 ELSE y \div g2
        n1 == IF q[1] = 0 THEN 0 ELSE q[1] \div g2
    IN  RNorm(n1 * x1, d1 * y1)

RAdd(p, q) ==
    LET g == Gcd(p[2], q[2])
    IN  RNorm(p[1] * (q[2] \div g) + q[1] * (p[2] \div g), (p[2] \div g) * q[2])

RMul(p, q) == RScale(RScale(<<1, 1>>, Abs(p[1]), p[2]), Abs(q[1]), q[2])

SZero == [s |-> 0, n |-> 0, d |-> 1]

MkSurd(s, q) == IF s = 0 \/ q[1] = 0 THEN SZero ELSE [s |-> s, n |-> q[1], d |-> q[2]]

(* the product of two surds *)
SMul(a, b) == MkSurd(a.s * b.s, RMul(<<a.n, a.d>>, <<b.n, b.d>>))

(* r * sqrt(q) for a fraction r and a fraction q >= 0 *)
SFromRatSqrt(r, q) == MkSurd(Sign(r[1]), RMul(RMul(r, r), q))

(***************************************************************************)
(* sympy.physics.wigner.wigner_3j and clebsch_gordan, and                  *)
(* sympy.physics.quantum.cg.CG(j1, m1, j2, m2, j3, m3).doit(), for integer *)
(* arguments: the early returns of exactly 0 and Racah's formula           *)
(*   sqrt(argsqrt) * sumres * prefid.                                      *)
(***************************************************************************)
RECURSIVE Fact(_)
Fact(n) == IF n <= 0 THEN 1 ELSE n * Fact(n - 1)

RECURSIVE RScaleAll(_, _)
RScaleAll(q, xs) ==
    IF xs = <<>> THEN q ELSE RScaleAll(RScale(q, Head(xs), 1), Tail(xs))

RECURSIVE wigner_sum(_, _, _, _, _, _, _, _)
wigner_sum(ii, imax, j_1, j_2, j_3, m_1, m_2, m_3) ==
    IF ii > imax THEN <<0, 1>>
    ELSE LET den == Fact(ii) * Fact(ii + j_3 - j_1 - m_2) * Fact(j_2 + m_2 - ii)
                    * Fact(j_1 - ii - m_1) * Fact(ii + j_3 - j_2 + m_1)
                    * Fact(j_1 + j_2 - j_3 - ii)
         IN  RAdd(<<MinusOnePow(ii), den>>,
                  wigner_sum(ii + 1, imax, j_1, j_2, j_3, m_1, m_2, m_3))

wigner_3j(j_1, j_2, j_3, m_1, m_2, m_3in) ==
    LET prefid == MinusOnePow(Abs(j_1 - j_2 - m_3in))
        m_3 == -m_3in
        argsqrt == RScaleAll(<<1, Fact(j_1 + j_2 + j_3 + 1)>>,
                             <<Fact(j_1 + j_2 - j_3), Fact(j_1 - j_2 + j_3),
                               Fact(j_2 + j_3 - j_1), Fact(j_1 - m_1), Fact(j_1 + m_1),
                               Fact(j_2 - m_2), Fact(j_2 + m_2), Fact(j_3 - m_3),
                               Fact(j_3 + m_3)>>)
        imin == Max2(Max2(j_1 + m_2 - j_3, j_2 - m_1 - j_3), 0)
        imax == Min2(Min2(j_2 + m_2, j_1 - m_1), j_1 + j_2 - j_3)
        sumres == wigner_sum(imin, imax, j_1, j_2, j_3, m_1, m_2, m_3)
    IN  IF m_1 + m_2 + m_3in # 0 THEN SZero
        ELSE IF j_1 + j_2 - j_3 < 0 THEN SZero
        ELSE IF j_1 - j_2 + j_3 < 0 THEN SZero
        ELSE IF j_2 + j_3 - j_1 < 0 THEN SZero
        ELSE IF Abs(m_1) > j_1 \/ Abs(m_2) > j_2 \/ Abs(m_3) > j_3 THEN SZero
        ELSE SFromRatSqrt(<<prefid * sumres[1], sumres[2]>>, argsqrt)

clebsch_gordan(j_1, j_2, j_3, m_1, m_2, m_3) ==
    LET w == wigner_3j(j_1, j_2, j_3, m_1, m_2, -m_3)
        sg == MinusOnePow(Abs(j_1 - j_2 + m_3))
    IN  SMul([s |-> sg, n |-> 2 * j_3 + 1, d |-> 1], w)

CG(j1, m1, j2, m2, j3, m3) == clebsch_gordan(j1, j2, j3, m1, m2, m3)

(***************************************************************************)
(* SGWB.calc_beta.  The sizes are those __init__ derives from blmax:       *)
(* almax = 2*blmax, alm_size = (almax+1)^2, blm_size = getsize(blmax).     *)
(* A beta entry sqrt((2l1+1)(2l2+1)/(4 pi (2L+1))) * cg0 * cg1 is kept as  *)
(* the surd sqrt((2l1+1)(2l2+1)/(2L+1)) * cg0 * cg1, the factor            *)
(* 1/sqrt(4 pi) being common to all entries.                               *)
(***************************************************************************)
almax_of(blmax) == 2 * blmax

(* a plausible slip: only the M >= 0 half is counted *)
alm_size_of_nonneg(blmax) == getsize(almax_of(blmax))

alm_size_of(blmax) == (almax_of(blmax) + 1) * (almax_of(blmax) + 1)

blm_size_of(blmax) == getsize(blmax)

full_size_of(blmax) == 2 * blm_size_of(blmax) - blmax - 1

(* a plausible slip: l1 typed twice in the prefactor *)
beta_entry_l1_twice(blmax, ii, jj, kk) ==
    LET lm1 == idx_2_alm(blmax, jj)
        lm2 == idx_2_alm(blmax, kk)
        LM == idx_2_alm(almax_of(blmax), ii)
        cg0 == CG(lm1.l, 0, lm2.l, 0, LM.l, 0)
        cg1 == CG(lm1.l, lm1.m, lm2.l, lm2.m, LM.l, LM.m)
    IN  SMul(SMul([s |-> 1, n |-> (2 * lm1.l + 1) * (2 * lm1.l + 1), d |-> 2 * LM.l + 1], cg0),
             cg1)

(* a plausible slip: the second projection enters with the wrong sign *)
beta_entry_m2_sign(blmax, ii, jj, kk) ==
    LET lm1 == idx_2_alm(blmax, jj)
        lm2 == idx_2_alm(blmax, kk)
        LM == idx_2_alm(almax_of(blmax), ii)
        cg0 == CG(lm1.l, 0, lm2.l, 0, LM.l, 0)
        cg1 == CG(lm1.l, lm1.m, lm2.l, -lm2.m, LM.l, LM.m)
    IN  SMul(SMul([s |-> 1, n |-> (2 * lm1.l + 1) * (2 * lm2.l + 1), d |-> 2 * LM.l + 1], cg0),
             cg1)

(* a plausible slip: the zero-projection factor cg0 is left out *)
beta_entry_no_cg0(blmax, ii, jj, kk) ==
    LET lm1 == idx_2_alm(blmax, jj)
        lm2 == idx_2_alm(blmax, kk)
        LM == idx_2_alm(almax_of(blmax), ii)
        cg1 == CG(lm1.l, lm1.m, lm2.l, lm2.m, LM.l, LM.m)
    IN  SMul([s |-> 1, n |-> (2 * lm1.l + 1) * (2 * lm2.l + 1), d |-> 2 * LM.l + 1], cg1)

beta_entry(blmax, ii, jj, kk) ==
    LET lm1 == idx_2_alm(blmax, jj)
        lm2 == idx_2_alm(blmax, kk)
        LM == idx_2_alm(almax_of(blmax), ii)
        cg0 == CG(lm1.l, 0, lm2.l, 0, LM.l, 0)
        cg1 == CG(lm1.l, lm1.m, lm2.l, lm2.m, LM.l, LM.m)
    IN  SMul(SMul([s |-> 1, n |-> (2 * lm1.l + 1) * (2 * lm2.l + 1), d |-> 2 * LM.l + 1], cg0),
             cg1)

(* the exception, if any, the three decodes of one iteration raise *)
beta_entry_raised(blmax, ii, jj, kk) ==
    IF idx_2_alm(blmax, jj).raised # "none" THEN idx_2_alm(blmax, jj).raised
    ELSE IF idx_2_alm(blmax, kk).raised # "none" THEN idx_2_alm(blmax, kk).raised
    ELSE idx_2_alm(almax_of(blmax), ii).raised

(* np.zeros((alm_size, n, n)) *)
beta_zeros(blmax) ==
    [ii \in 0 .. alm_size_of(blmax) - 1 |->
        [jj \in 0 .. full_size_of(blmax) - 1 |->
            [kk \in 0 .. full_size_of(blmax) - 1 |-> SZero]]]

(* the whole tensor calc_beta returns *)
calc_beta(blmax) ==
    [ii \in 0 .. alm_size_of(blmax) - 1 |->
        [jj \in 0 .. full_size_of(blmax) - 1 |->
            [kk \in 0 .. full_size_of(blmax) - 1 |-> beta_entry(blmax, ii, jj, kk)]]]

(***************************************************************************)
(* calc_beta, one loop iteration per step.                                 *)
(***************************************************************************)
BetaStart(blmax) ==
    [blmax |-> blmax, ii |-> 0, jj |-> 0, kk |-> 0, st |-> "loop", raised |-> "none",
     beta_vals |-> beta_zeros(blmax)]

CalcBetaIter ==
    /\ bt.st = "loop"
    /\ LET n == full_size_of(bt.blmax)
           err == beta_entry_raised(bt.blmax, bt.ii, bt.jj, bt.kk)
           lastk == bt.kk = n - 1
           lastj == bt.jj = n - 1
           lasti == bt.ii = alm_size_of(bt.blmax) - 1
       IN  IF err # "none"
           THEN bt' = [bt EXCEPT !.st = "raised", !.raised = err]
           ELSE bt' = [bt EXCEPT
                         !.beta_vals[bt.ii][bt.jj][bt.kk] = beta_entry(bt.blmax, bt.ii, bt.jj, bt.kk),
                         !.kk = IF lastk THEN 0 ELSE bt.kk + 1,
                         !.jj = IF lastk THEN (IF lastj THEN 0 ELSE bt.jj + 1) ELSE bt.jj,
                         !.ii = IF lastk /\ lastj /\ ~lasti THEN bt.ii + 1 ELSE bt.ii,
                         !.st = IF lastk /\ lastj /\ lasti THEN "returned" ELSE "loop"]
    /\ UNCHANGED <<pc, args, self, loc, exc, rng, run, prev, ext, call>>

(***************************************************************************)
(* Num: the value (re + i*im)/den * pi^(pe/2) of a numpy float or complex, *)
(* or the non-finite result of a division by zero: "inf" and "nan" for a   *)
(* float, and for a complex "cinf", both parts infinite with the signs     *)
(* re, im (a complex with one part nan is "nan").  numpy raises nothing on *)
(* such a division of arrays; it warns and goes on.  Arithmetic on a       *)
(* complex infinity leaves a nan part.                                     *)
(***************************************************************************)
NZero == [k |-> "fin", re |-> 0, im |-> 0, den |-> 1, pe |-> 0]

NNaN == [k |-> "nan", re |-> 0, im |-> 0, den |-> 1, pe |-> 0]

NInf == [k |-> "inf", re |-> 0, im |-> 0, den |-> 1, pe |-> 0]

NFin(re, im, den, pe) ==
    IF re = 0 /\ im = 0 THEN NZero
    ELSE LET g == Gcd(Gcd(re, im), den)
             sg == IF den < 0 THEN -1 ELSE 1
         IN  [k |-> "fin", re |-> sg * (re \div g), im |-> sg * (im \div g),
              den |-> sg * (den \div g), pe |-> pe]

NCInf(sre, sim) == [k |-> "cinf", re |-> sre, im |-> sim, den |-> 1, pe |-> 0]

NInt(n) == NFin(n, 0, 1, 0)

NRat(n, d) == NFin(n, 0, d, 0)

Finite(a) == a.k = "fin"

NMul(a, b) ==
    IF a.k \in {"nan", "cinf"} \/ b.k \in {"nan", "cinf"} THEN NNaN
    ELSE IF a.k = "inf" \/ b.k = "inf"
    THEN (IF a = NZero \/ b = NZero THEN NNaN ELSE NInf)
    ELSE NFin(a.re * b.re - a.im * b.im, a.re * b.im + a.im * b.re, a.den * b.den,
              a.pe + b.pe)

NDiv(a, b) ==
    IF a.k \in {"nan", "cinf"} \/ b.k \in {"nan", "cinf"} THEN NNaN
    ELSE IF b.k = "inf" THEN (IF a.k = "inf" THEN NNaN ELSE NZero)
    ELSE IF b = NZero THEN (IF a = NZero THEN NNaN ELSE NInf)
    ELSE IF a.k = "inf" THEN NInf
    ELSE NFin((a.re * b.re + a.im * b.im) * b.den, (a.im * b.re - a.re * b.im) * b.den,
              a.den * (b.re * b.re + b.im * b.im), a.pe - b.pe)

(* a sum; the finite terms of every sum of the program share their power of pi *)
NAdd(a, b) ==
    IF a.k \in {"nan", "cinf"} \/ b.k \in {"nan", "cinf"} THEN NNaN
    ELSE IF a.k = "inf" \/ b.k = "inf" THEN NInf
    ELSE IF a = NZero THEN b
    ELSE IF b = NZero THEN a
    ELSE LET g == Gcd(a.den, b.den)
         IN  NFin(a.re * (b.den \div g) + b.re * (a.den \div g),
                  a.im * (b.den \div g) + b.im * (a.den \div g),
                  (a.den \div g) * b.den, a.pe)

(* complex128 / float64 as numpy's complex division loop does it: a zero   *)
(* divisor gives (re/0, im/0), and 0/0 is nan                              *)
NDivC(a, b) ==
    IF Finite(a) /\ b = NZero
    THEN (IF a.re = 0 \/ a.im = 0 THEN NNaN ELSE NCInf(Sign(a.re), Sign(a.im)))
    ELSE NDiv(a, b)

NConj(a) == [a EXCEPT !.im = 0 - a.im]

(* == on numbers: a value with a nan part equals nothing, itself included *)
NumEq(a, b) == a.k # "nan" /\ a = b

(* np.sqrt(4*np.pi) = 2*pi^(1/2) and Y00 = 1/sqrt(4 pi) *)
Sqrt4Pi == NFin(2, 0, 1, 1)

Y00 == NFin(1, 0, 2, -1)

(***************************************************************************)
(* Sums of surds.  An angular-power value sum beta*b*b is kept exactly as  *)
(* a set of terms [r, c]: the value is sum c*sqrt(r), r a squarefree       *)
(* integer, c a Num (which carries the common 1/sqrt(4 pi) of beta).       *)
(***************************************************************************)
RECURSIVE SqFactorFrom(_, _)
SqFactorFrom(n, k) ==
    IF k * k > n THEN 1
    ELSE IF n % (k * k) = 0 THEN k * SqFactorFrom(n \div (k * k), k)
    ELSE SqFactorFrom(n, k + 1)

(* the largest k with k*k dividing n *)
SqFactor(n) == SqFactorFrom(n, 2)

SurdRad(x) == (x.n * x.d) \div (SqFactor(x.n * x.d) * SqFactor(x.n * x.d))

(* the beta entry x as a Num coefficient of sqrt(SurdRad(x)) *)
SurdCoeff(x) == NFin(x.s * SqFactor(x.n * x.d), 0, 2 * x.d, -1)

SSNan == {[r |-> 1, c |-> NNaN]}

SSFinite(ss) == \A t \in ss : Finite(t.c)

(* the Num a rational surd sum stands for *)
SSNum(ss) ==
    IF ss = {} THEN NZero
    ELSE (CHOOSE t \in ss : t.r = 1 /\ Cardinality(ss) = 1).c

SSDiv(ss, den) ==
    IF ss = {} THEN (IF NDiv(NZero, den) = NZero THEN {} ELSE SSNan)
    ELSE {[r |-> t.r, c |-> NDiv(t.c, den)] : t \in ss}

(***************************************************************************)
(* The SGWB instance and its constructor, SGWB.__init__, stage by stage.   *)
(* Arrays are sequences: the Python index i is the position i+1.           *)
(* The plain copies self.fmax = fmax, ... (lines 39-49, 52) are read from  *)
(* args.                                                                   *)
(***************************************************************************)
SelfNew ==
    [blmax |-> 0, num_blms |-> 0, blms |-> <<>>, almax |-> 0, alm_size |-> 0, blm_size |-> 0,
     bl_idx |-> <<>>, bm_idx |-> <<>>, skymap_inj |-> <<>>, frange |-> <<>>,
     signal_in_Gu |-> <<>>, TQresponse_plus |-> <<>>, TQresponse_cross |-> <<>>,
     TQ_ORF |-> <<>>, signal_SGWB |-> <<>>]

LocNew ==
    [beta_shape |-> <<>>, blm_full |-> <<>>, steps |-> <<>>, alms_inj |-> <<>>,
     alms_inj2 |-> <<>>, alms_non_neg |-> <<>>, tf |-> <<>>, Sgw |-> <<>>, Sgw_Gu |-> <<>>,
     npix |-> 0, wpos |-> <<>>]

PrevNone == [Sgw_Gu |-> <<>>, signal_in_Gu |-> <<>>]

(* the tensor of every blmax of the model, computed once *)
beta_cache == [b \in 0 .. MaxLmax |-> calc_beta(b)]

(***************************************************************************)
(* SGWB.calc_blm_full: the expanded array, or the IndexError of a read     *)
(* past the end of blms_in (or of the index tables).                       *)
(***************************************************************************)
(* a plausible slip: only the stored (m >= 0) entries are allocated *)
blm_full_size_half(slf) == slf.blm_size

blm_full_size(slf) == 2 * slf.blm_size - slf.blmax - 1

blm_src_idx(slf, jj) == getidx(slf.blmax, slf.bl_idx[jj + 1], Abs(slf.bm_idx[jj + 1]))

(* a plausible slip: the conjugation of the negative-m entries is left out *)
blm_full_entry_no_conj(slf, blms_in, jj) ==
    LET mval == slf.bm_idx[jj + 1]
        src == blms_in[blm_src_idx(slf, jj) + 1]
    IN  IF mval >= 0 THEN src
        ELSE NMul(NInt(MinusOnePow(0 - mval)), src)

blm_full_entry(slf, blms_in, jj) ==
    LET mval == slf.bm_idx[jj + 1]
        src == blms_in[blm_src_idx(slf, jj) + 1]
    IN  IF mval >= 0 THEN src
        ELSE NMul(NInt(MinusOnePow(0 - mval)), NConj(src))

calc_blm_full(slf, blms_in) ==
    LET n == blm_full_size(slf)
    IN  IF \/ n > Len(slf.bl_idx)
           \/ \E jj \in 0 .. n - 1 : blm_src_idx(slf, jj) >= Len(blms_in)
        THEN [raised |-> "IndexError", val |-> <<>>]
        ELSE [raised |-> "none",
              val |-> [j1 \in 1 .. n |-> blm_full_entry(slf, blms_in, j1 - 1)]]

(***************************************************************************)
(* The arrays calc_blm_full can reach, threaded through its loop (lines    *)
(* 124-133): st.blms_in is the caller's array, st.blms_full the array      *)
(* allocated at line 122 and st.self the instance.  One iteration assigns  *)
(* blms_full[jj] and nothing else.                                         *)
(***************************************************************************)
(* a plausible slip: the negative-m branch conjugates the source entry in place *)
calc_blm_full_iter_in_place(st, jj) ==
    [st EXCEPT !.blms_full[jj + 1] = blm_full_entry(st.self, st.blms_in, jj),
               !.blms_in[blm_src_idx(st.self, jj) + 1] =
                   IF st.self.bm_idx[jj + 1] >= 0 THEN @ ELSE NConj(@)]

calc_blm_full_iter(st, jj) ==
    [st EXCEPT !.blms_full[jj + 1] = blm_full_entry(st.self, st.blms_in, jj)]

RECURSIVE calc_blm_full_loop(_, _)
calc_blm_full_loop(st, n) ==
    IF n = 0 THEN st ELSE calc_blm_full_iter(calc_blm_full_loop(st, n - 1), n - 1)

(* the arrays after calc_blm_full(blms_in) has returned or raised; a read  *)
(* that raises IndexError comes before the assignment of its iteration     *)
calc_blm_full_effect(slf, blms_in) ==
    LET st0 == [blms_in |-> blms_in, self |-> slf,
                blms_full |-> [j1 \in 1 .. blm_full_size(slf) |-> NZero]]
    IN  IF calc_blm_full(slf, blms_in).raised # "none" THEN st0
        ELSE calc_blm_full_loop(st0, blm_full_size(slf))

(* the arrays after blm_2_alm(blms_in): calc_beta and the einsum write to  *)
(* arrays of their own, the size error comes before calc_blm_full          *)
blm_2_alm_effect(slf, blms_in) ==
    IF Len(blms_in) # slf.blm_size
    THEN [blms_in |-> blms_in, self |-> slf, blms_full |-> <<>>]
    ELSE calc_blm_full_effect(slf, blms_in)

(***************************************************************************)
(* SGWB.blm_2_alm: calc_beta, then the size check, then the expansion and  *)
(* the contraction np.einsum('ijk,j,k', beta_vals, blm_full, blm_full).    *)
(***************************************************************************)
RECURSIVE alm_row(_, _, _, _, _)
alm_row(beta_ii, blm_full, r, jj, kk) ==
    IF kk >= Len(blm_full) THEN NZero
    ELSE IF beta_ii[jj][kk] = SZero \/ SurdRad(beta_ii[jj][kk]) # r
    THEN alm_row(beta_ii, blm_full, r, jj, kk + 1)
    ELSE NAdd(NMul(NMul(SurdCoeff(beta_ii[jj][kk]), blm_full[jj + 1]), blm_full[kk + 1]),
              alm_row(beta_ii, blm_full, r, jj, kk + 1))

RECURSIVE alm_acc(_, _, _, _)
alm_acc(beta_ii, blm_full, r, jj) ==
    IF jj >= Len(blm_full) THEN NZero
    ELSE NAdd(alm_row(beta_ii, blm_full, r, jj, 0), alm_acc(beta_ii, blm_full, r, jj + 1))

alm_entry(beta_ii, blm_full) ==
    LET n == Len(blm_full)
        rads == {SurdRad(beta_ii[jj][kk]) :
                    <<jj, kk>> \in {q \in (0 .. n - 1) \X (0 .. n - 1) : beta_ii[q[1]][q[2]] # SZero}}
    IN  {t \in {[r |-> r, c |-> alm_acc(beta_ii, blm_full, r, 0)] : r \in rads} : t.c # NZero}

SizeError == "ValueError: The size of the input blm array does not match the size defined by lmax"

(* np.einsum('ijk,j,k', beta_vals, blm_full, blm_full) *)
einsum_ijk_j_k(beta_vals, blm_full) ==
    [i1 \in 1 .. Cardinality(DOMAIN beta_vals) |-> alm_entry(beta_vals[i1 - 1], blm_full)]

beta_shape_of(beta_vals) ==
    <<Cardinality(DOMAIN beta_vals), Cardinality(DOMAIN beta_vals[0]),
      Cardinality(DOMAIN beta_vals[0][0])>>

(* lines 140-148, given the tensor of line 139 and what calc_blm_full gives *)
blm_2_alm_from(slf, blms_in, beta_vals, full) ==
    IF Len(blms_in) # slf.blm_size
    THEN [raised |-> SizeError, val |-> <<>>, blm_full |-> <<>>,
          beta_shape |-> beta_shape_of(beta_vals),
          steps |-> <<"calc_beta", "size_check">>]
    ELSE IF full.raised # "none"
    THEN [raised |-> full.raised, val |-> <<>>, blm_full |-> <<>>,
          beta_shape |-> beta_shape_of(beta_vals),
          steps |-> <<"calc_beta", "size_check", "calc_blm_full">>]
    ELSE IF Len(full.val) # Cardinality(DOMAIN beta_vals[0])
    THEN [raised |-> "ValueError: einsum operand sizes", val |-> <<>>,
          blm_full |-> full.val, beta_shape |-> beta_shape_of(beta_vals),
          steps |-> <<"calc_beta", "size_check", "calc_blm_full", "einsum">>]
    ELSE [raised |-> "none",
          val |-> einsum_ijk_j_k(beta_vals, full.val),
          blm_full |-> full.val, beta_shape |-> beta_shape_of(beta_vals),
          steps |-> <<"calc_beta", "size_check", "calc_blm_full", "einsum">>]

(***************************************************************************)
(* SGWB.calc_beta as a method of the instance slf: the shape is read from  *)
(* self.alm_size, self.blm_size and self.blmax (line 103) and the entry    *)
(* (ii, jj, kk) from the decodes under self.blmax and self.almax (lines    *)
(* 108-116); almax is 2*blmax on every instance (line 56).  Nothing else   *)
(* of the instance is read and no attribute is assigned.                   *)
(***************************************************************************)
(* a plausible slip: the stored monopole coefficient scales the tensor *)
calc_beta_of_reads_blms(slf) ==
    [ii \in 0 .. slf.alm_size - 1 |->
        [jj \in 0 .. (2 * slf.blm_size - slf.blmax - 1) - 1 |->
            [kk \in 0 .. (2 * slf.blm_size - slf.blmax - 1) - 1 |->
                IF slf.blms[1] = NZero THEN SZero ELSE beta_cache[slf.blmax][ii][jj][kk]]]]

calc_beta_of(slf) ==
    [ii \in 0 .. slf.alm_size - 1 |->
        [jj \in 0 .. (2 * slf.blm_size - slf.blmax - 1) - 1 |->
            [kk \in 0 .. (2 * slf.blm_size - slf.blmax - 1) - 1 |->
                beta_cache[slf.blmax][ii][jj][kk]]]]

blm_2_alm(slf, blms_in) ==
    blm_2_alm_from(slf, blms_in, calc_beta_of(slf), calc_blm_full(slf, blms_in))

(* line 65, with the division by sqrt(4 pi) forgotten *)
normalize_alms_no_sqrt(alms_inj) ==
    [i1 \in 1 .. Len(alms_inj) |-> SSDiv(alms_inj[i1], SSNum(alms_inj[1]))]

(* line 65: alms_inj/(alms_inj[0]*np.sqrt(4*np.pi)) *)
normalize_alms(alms_inj) ==
    [i1 \in 1 .. Len(alms_inj) |-> SSDiv(alms_inj[i1], NMul(SSNum(alms_inj[1]), Sqrt4Pi))]

(***************************************************************************)
(* healpy: nside2npix and alm2map.  The monopole term of the map is        *)
(* a00*Y00 at every pixel.  The values of the higher harmonics at the      *)
(* pixel centres are not computed here: when an a_LM with L >= 1 is not 0  *)
(* the map is the monopole times 1 + delta_p/2, delta_p in {-1, 0, 1}      *)
(* given by the pattern ext.sky, one of the fields healpy may return.      *)
(***************************************************************************)
nside2npix(nside) == 12 * nside * nside

SkyDelta(pat, p) == ((p * pat + pat) % 3) - 1

alm2map(alms, nside, pat) ==
    LET mono == NMul(SSNum(alms[1]), Y00)
        finite == \A i1 \in 1 .. Len(alms) : SSFinite(alms[i1])
        aniso == \E i1 \in 2 .. Len(alms) : alms[i1] # {}
    IN  [p1 \in 1 .. nside2npix(nside) |->
            IF ~finite THEN NNaN
            ELSE IF aniso THEN NMul(mono, NFin(2 + SkyDelta(pat, p1 - 1), 0, 2, 0))
            ELSE mono]

(***************************************************************************)
(* Lines 39-55: the attributes and the copy of blm_vals into self.blms.    *)
(* blm_vals[ii] past the end of a short blm_vals raises IndexError; the    *)
(* surplus of a long blm_vals is never read.                               *)
(***************************************************************************)
Ctor_CopyBlms ==
    /\ pc = "copy_blms"
    /\ LET num_blms == getsize(args.blmax)
       IN  IF Len(args.blm_vals) < num_blms
           THEN /\ pc' = "raised"
                /\ exc' = "IndexError"
                /\ self' = [self EXCEPT !.blmax = args.blmax,
                                        !.num_blms = num_blms,
                                        !.blms = [i1 \in 1 .. num_blms |->
                                                     IF i1 <= Len(args.blm_vals)
                                                     THEN args.blm_vals[i1] ELSE NZero]]
           ELSE /\ pc' = "index_tables"
                /\ exc' = exc
                /\ self' = [self EXCEPT !.blmax = args.blmax,
                                        !.num_blms = num_blms,
                                        !.blms = [i1 \in 1 .. num_blms |-> args.blm_vals[i1]]]
    /\ UNCHANGED <<args, loc, rng, run, prev, ext, bt, call>>

(* Lines 56-63: almax, alm_size, blm_size and the tables bl_idx, bm_idx *)
Ctor_IndexTables ==
    /\ pc = "index_tables"
    /\ LET blm_size == getsize(self.blmax)
           n == 2 * blm_size - self.blmax - 1
           bad == {ii \in 0 .. n - 1 : idx_2_alm(args.blmax, ii).raised # "none"}
       IN  IF bad # {}
           THEN /\ pc' = "raised"
                /\ exc' = idx_2_alm(args.blmax, CHOOSE ii \in bad : \A o \in bad : ii <= o).raised
                /\ self' = self
           ELSE /\ pc' = "inject_alm"
                /\ exc' = exc
                /\ self' = [self EXCEPT !.almax = almax_of(self.blmax),
                                        !.alm_size = alm_size_of(self.blmax),
                                        !.blm_size = blm_size,
                                        !.bl_idx = [i1 \in 1 .. n |-> idx_2_alm(args.blmax, i1 - 1).l],
                                        !.bm_idx = [i1 \in 1 .. n |-> idx_2_alm(args.blmax, i1 - 1).m]]
    /\ UNCHANGED <<args, loc, rng, run, prev, ext, bt, call>>

(* Lines 64-67: alms_inj = blm_2_alm(self.blms), normalised and cut to M >= 0 *)
Ctor_InjectAlm ==
    /\ pc = "inject_alm"
    /\ \E e \in {blm_2_alm_effect(self, self.blms)} :
           \* blms_in is self.blms itself, not a copy
           self' = [e.self EXCEPT !.blms = e.blms_in]
    /\ \E r \in {blm_2_alm(self, self.blms)} :
           IF r.raised # "none"
           THEN /\ pc' = "raised"
                /\ exc' = r.raised
                /\ loc' = [loc EXCEPT !.beta_shape = r.beta_shape, !.blm_full = r.blm_full,
                                      !.steps = r.steps]
           ELSE /\ pc' = "synth_map"
                /\ exc' = exc
                /\ loc' = [loc EXCEPT !.beta_shape = r.beta_shape, !.blm_full = r.blm_full,
                                      !.steps = r.steps,
                                      !.alms_inj = r.val,
                                      !.alms_inj2 = normalize_alms(r.val),
                                      !.alms_non_neg = SubSeq(normalize_alms(r.val), 1,
                                                              getsize(self.almax))]
    /\ UNCHANGED <<args, rng, run, prev, ext, bt, call>>

(* Line 69: self.skymap_inj = hp.alm2map(alms_non_neg, self.nside_in) *)
Ctor_SynthMap ==
    /\ pc = "synth_map"
    /\ self' = [self EXCEPT !.skymap_inj = alm2map(loc.alms_non_neg, args.nside_in, ext.sky)]
    /\ pc' = "spectrum"
    /\ UNCHANGED <<args, loc, exc, rng, run, prev, ext, bt, call>>

(***************************************************************************)
(* Lines 70-75: the frequency grid, the time grid, the power-law spectrum  *)
(* and its seeded noise realisation.                                       *)
(***************************************************************************)
(* np.linspace(fmin, fmax, fn), fn >= 1 *)
linspace(fmin, fmax, fn) ==
    [k1 \in 1 .. fn |->
        IF fn = 1 THEN NInt(fmin)
        ELSE NRat(fmin * (fn - 1) + (k1 - 1) * (fmax - fmin), fn - 1)]

(* np.arange(0, Ttot, tsegmid), tsegmid > 0: ceil(Ttot/tsegmid) samples *)
arange(stop, step) ==
    [k1 \in 1 .. (IF stop <= 0 THEN 0 ELSE (stop + step - 1) \div step) |-> (k1 - 1) * step]

RECURSIVE NPow(_, _)
NPow(x, e) == IF e <= 0 THEN NInt(1) ELSE NMul(x, NPow(x, e - 1))

(* line 72: self.omega0*(self.frange/self.fref)**self.alpha *)
Omega_of(f, a) == NMul(NInt(a.omega0), NPow(NDiv(f, NInt(a.fref)), a.alpha))

(* line 73: Omegaf*(3/(4*self.frange**3))*(self.H0/np.pi)**2 *)
Sgw_of(f, a) ==
    NMul(NMul(Omega_of(f, a), NDiv(NInt(3), NMul(NInt(4), NPow(f, 3)))),
         NFin(a.H0 * a.H0, 0, 1, -4))

(***************************************************************************)
(* gwspace.wrap.frequency_noise_from_psd(psd, delta_f, seed): not part of  *)
(* src/.  Modelled from the spec (section 4.5): a complex realisation      *)
(* sigma*(g_re + i*g_im), sigma^2 = psd/(4*delta_f), whose draws come from *)
(* the process-wide generator, re-seeded when a seed is given.  A sample   *)
(* is [sig2, gre, gim]; the generator is a small congruential one and a    *)
(* draw is an integer in -2..2.  seed = -1 stands for seed=None.            *)
(***************************************************************************)
RngSeeded(seed) == seed % 101

RngNext(st) == (7 * st + 3) % 101

RECURSIVE RngAfter(_, _)
RngAfter(st, k) == IF k <= 0 THEN st ELSE RngAfter(RngNext(st), k - 1)

RngDraw(st, k) == (RngAfter(st, k) % 5) - 2

frequency_noise_from_psd(psd, Ttot, seed, rng0) ==
    LET start == IF seed < 0 THEN rng0 ELSE RngSeeded(seed)
        sig2(k1) == NMul(psd[k1], NRat(Ttot, 4))
        sigma_bad(k1) == ~Finite(sig2(k1)) \/ sig2(k1).re < 0
        nz == {k1 \in 1 .. Len(psd) : sig2(k1) # NZero}
        rank(k1) == Cardinality({j1 \in nz : j1 <= k1})
        n == Cardinality(nz)
    IN  [noise |-> [k1 \in 1 .. Len(psd) |->
                      IF k1 \notin nz THEN [sig2 |-> NZero, gre |-> 0, gim |-> 0]
                      ELSE [sig2 |-> IF sigma_bad(k1) THEN NNaN ELSE sig2(k1),
                            gre |-> RngDraw(start, rank(k1)),
                            gim |-> RngDraw(start, n + rank(k1))]],
         rng |-> RngAfter(start, 2 * n)]

SpectrumSeed == 123

(* line 74 with seed=None: the generator is not re-seeded *)
spectrum_noise_unseeded(Sgw, Ttot, rng0) == frequency_noise_from_psd(Sgw, Ttot, -1, rng0)

(* line 74: frequency_noise_from_psd(Sgw, 1/Ttot, seed=123) *)
spectrum_noise(Sgw, Ttot, rng0) == frequency_noise_from_psd(Sgw, Ttot, SpectrumSeed, rng0)

(* line 75, one frequency: (2/Ttot)*Sgw_Gu*Sgw_Gu.conj() *)
cross_term(x, Ttot) ==
    NMul(NRat(2, Ttot), NMul(x.sig2, NInt(x.gre * x.gre + x.gim * x.gim)))

Ctor_Spectrum ==
    /\ pc = "spectrum"
    /\ \E frange \in {linspace(args.fmin, args.fmax, args.fn)} :
       \E Sgw \in {[k1 \in 1 .. Len(frange) |-> Sgw_of(frange[k1], args)]} :
       \E gu \in {spectrum_noise(Sgw, args.Ttot, rng)} :
           IF args.tsegmid = 0
           THEN \* line 71: np.arange(0, Ttot, 0)
                /\ pc' = "raised"
                /\ exc' = "ZeroDivisionError"
                /\ self' = [self EXCEPT !.frange = frange]
                /\ UNCHANGED <<loc, rng>>
           ELSE IF args.Ttot = 0
           THEN \* line 74: 1/Ttot
                /\ pc' = "raised"
                /\ exc' = "ZeroDivisionError"
                /\ self' = [self EXCEPT !.frange = frange]
                /\ loc' = [loc EXCEPT !.tf = arange(args.Ttot, args.tsegmid), !.Sgw = Sgw]
                /\ UNCHANGED rng
           ELSE /\ pc' = "response"
                /\ exc' = exc
                /\ self' = [self EXCEPT
                              !.frange = frange,
                              !.signal_in_Gu =
                                  [k1 \in 1 .. Len(frange) |->
                                      [p1 \in 1 .. Len(self.skymap_inj) |->
                                          NMul(cross_term(gu.noise[k1], args.Ttot),
                                               self.skymap_inj[p1])]]]
                /\ loc' = [loc EXCEPT !.tf = arange(args.Ttot, args.tsegmid), !.Sgw = Sgw,
                                      !.Sgw_Gu = gu.noise]
                /\ rng' = gu.rng
    /\ UNCHANGED <<args, run, prev, ext, bt, call>>

(***************************************************************************)
(* Lines 76-94: the pixel grid and the response of every (pixel,           *)
(* frequency) work item.  gwspace.response and gwspace.Orbit are not part  *)
(* of src/: what trans_y_slr_fd / get_XYZ_fd return for channel c,         *)
(* frequency j, time t and pixel i is one of a few families of complex     *)
(* values, selected by ext.resp.  det.L_T is either one arm length, the    *)
(* scalar ext.L_T, or, when ext.per_time holds, one arm length for each    *)
(* sample of tf, as the geometry provider of the specification supplies    *)
(* it: ext.L_T at the even samples of tf and ext.L_T + 1 at the odd ones.  *)
(***************************************************************************)
NChannels == 3

RespVal(resp, pol, c, j, t, i) ==
    NFin(((c * resp + i + j) % 3) - 1, ((c + t * resp + 2 * i + pol) % 3) - 1, 1, 0)

Ctor_Response ==
    /\ pc = "response"
    /\ LET npix == nside2npix(args.nside_in)
           resp(pol) ==
               [c \in 1 .. NChannels |->
                   [j \in 1 .. Len(self.frange) |->
                       [t \in 1 .. Len(loc.tf) |->
                           [i \in 1 .. npix |-> RespVal(ext.resp, pol, c, j, t, i)]]]]
       IN  /\ self' = [self EXCEPT !.TQresponse_plus = resp(0), !.TQresponse_cross = resp(1)]
           /\ loc' = [loc EXCEPT !.npix = npix]
    /\ pc' = "orf"
    /\ UNCHANGED <<args, exc, rng, run, prev, ext, bt, call>>

(* det.L_T of det = detectors[det](tf), line 83: ndim 0 is a scalar *)
det_L_T(e, tf) ==
    IF e.per_time
    THEN [ndim |-> 1, v |-> [t \in 1 .. Len(tf) |-> e.L_T + ((t - 1) % 2)]]
    ELSE [ndim |-> 0, v |-> <<e.L_T>>]

BroadcastError == "ValueError: operands could not be broadcast together"

(***************************************************************************)
(* numpy broadcasting at line 98.  frange[None, None, :, None, None] has   *)
(* the shape (1, 1, nf, 1, 1); its product with a scalar keeps that shape, *)
(* and its product with a one-dimensional L_T of n entries aligns L_T with *)
(* the LAST axis and has the shape (1, 1, nf, 1, n).  The numerator has    *)
(* the shape (3, 3, nf, nt, npix): the division is defined when n is 1 or  *)
(* npix, and then entry [m, n, j, t, l] is divided by the denominator      *)
(* [0, 0, j, 0, l]; otherwise numpy raises the ValueError.                 *)
(***************************************************************************)
orf_broadcasts(LT, npix) == LT.ndim = 0 \/ Len(LT.v) = 1 \/ Len(LT.v) = npix

L_T_bcast(LT, l) == IF LT.ndim = 0 \/ Len(LT.v) = 1 THEN LT.v[1] ELSE LT.v[l]

(* lines 96-98, one entry: the denominator is (2*pi*f*L_T)**2 *)
orf_entry(P, X, f, L_T, m, n, j, t, l) ==
    LET den == NMul(NMul(NFin(2, 0, 1, 2), f), NInt(L_T))
        outer == NAdd(NMul(NConj(P[m][j][t][l]), P[n][j][t][l]),
                      NMul(NConj(X[m][j][t][l]), X[n][j][t][l]))
    IN  NDivC(NMul(NFin(1, 0, 8, -2), outer), NMul(den, den))

Ctor_Orf ==
    /\ pc = "orf"
    /\ \E LT \in {det_L_T(ext, loc.tf)} :
          IF ~orf_broadcasts(LT, loc.npix)
          THEN /\ pc' = "raised"
               /\ exc' = BroadcastError
               /\ self' = self
          ELSE /\ pc' = "project"
               /\ exc' = exc
               /\ self' = [self EXCEPT !.TQ_ORF =
                   [m \in 1 .. NChannels |->
                       [n \in 1 .. NChannels |->
                           [j \in 1 .. Len(self.frange) |->
                               [t \in 1 .. Len(loc.tf) |->
                                   [l \in 1 .. loc.npix |->
                                       orf_entry(self.TQresponse_plus, self.TQresponse_cross,
                                                 self.frange[j], L_T_bcast(LT, l),
                                                 m, n, j, t, l)]]]]]]
    /\ UNCHANGED <<args, loc, rng, run, prev, ext, bt, call>>

(* lines 99-100: (4*np.pi)*np.sum(signal_in_Gu*TQ_ORF, axis=4)/npix *)
RECURSIVE pixel_sum(_, _, _)
pixel_sum(sig_j, orf_mnjt, l) ==
    IF l = 0 THEN NZero
    ELSE NAdd(pixel_sum(sig_j, orf_mnjt, l - 1), NMul(sig_j[l], orf_mnjt[l]))

(* line 100 with the division by npix forgotten *)
project_entry_no_npix(sig_j, orf_mnjt, npix) ==
    NMul(NFin(4, 0, 1, 2), pixel_sum(sig_j, orf_mnjt, npix))

(* line 100, one entry: (4*np.pi)*np.sum(response_signal, axis=4)/npix *)
project_entry(sig_j, orf_mnjt, npix) ==
    NDiv(NMul(NFin(4, 0, 1, 2), pixel_sum(sig_j, orf_mnjt, npix)), NInt(npix))

Ctor_Project ==
    /\ pc = "project"
    /\ self' = [self EXCEPT !.signal_SGWB =
                   [m \in 1 .. NChannels |->
                       [n \in 1 .. NChannels |->
                           [j \in 1 .. Len(self.frange) |->
                               [t \in 1 .. Len(loc.tf) |->
                                   project_entry(self.signal_in_Gu[j],
                                                 self.TQ_ORF[m][n][j][t], loc.npix)]]]]]
    /\ pc' = "done"
    /\ UNCHANGED <<args, loc, exc, rng, run, prev, ext, bt, call>>

(***************************************************************************)
(* Calls of the pure functions on their own.  A call starts "called" with  *)
(* its arguments drawn from the bounded sets below and ends "returned" or  *)
(* "raised".                                                               *)
(***************************************************************************)
CallIdle ==
    [fn |-> "none", a |-> 0, b |-> 0, arr |-> <<>>, arr_out |-> <<>>, st |-> "idle",
     raised |-> "none", ret |-> <<0, 0>>, steps |-> <<>>]

NewCall(fn, a, b) == [CallIdle EXCEPT !.fn = fn, !.a = a, !.b = b, !.st = "called"]

IdxCalls ==
    {NewCall("idx_2_alm", lmax, ii) :
        lmax \in 0 .. MaxIdxLmax,
        ii \in (0 - IdxSlack) .. ((MaxIdxLmax + 1) * (MaxIdxLmax + 1) + IdxSlack)}

BinomCalls ==
    {NewCall("BinomialCoefficient", n, k) : n \in -2 .. MaxBinom, k \in -2 .. MaxBinom}

Call_idx_2_alm ==
    /\ call.fn = "idx_2_alm"
    /\ call.st = "called"
    /\ LET r == idx_2_alm(call.a, call.b)
       IN  call' = [call EXCEPT !.st = IF r.raised = "none" THEN "returned" ELSE "raised",
                                !.raised = r.raised,
                                !.ret = <<r.l, r.m>>]
    /\ UNCHANGED <<pc, args, self, loc, exc, rng, run, prev, ext, bt>>

(***************************************************************************)
(* utils.epsilon: 0 on a repeated label, else the parity of the number of  *)
(* pairs out of order.                                                     *)
(***************************************************************************)
(* a plausible slip: the comparison of the outer pair (k < i) is left out *)
epsilon_two_tests(i, j, k) ==
    IF i = j \/ j = k \/ k = i THEN 0
    ELSE IF ((IF j < i THEN 1 ELSE 0) + (IF k < j THEN 1 ELSE 0)) % 2 = 0 THEN 1
    ELSE -1

epsilon(i, j, k) ==
    IF i = j \/ j = k \/ k = i THEN 0
    ELSE LET ss == (IF j < i THEN 1 ELSE 0) + (IF k < j THEN 1 ELSE 0) + (IF k < i THEN 1 ELSE 0)
         IN  IF ss % 2 = 0 THEN 1 ELSE -1

EpsCalls ==
    {[CallIdle EXCEPT !.fn = "epsilon", !.arr = <<i, j, k>>, !.st = "called"] :
        i \in 0 .. MaxEps, j \in 0 .. MaxEps, k \in 0 .. MaxEps}

Call_epsilon ==
    /\ call.fn = "epsilon"
    /\ call.st = "called"
    /\ call' = [call EXCEPT !.st = "returned",
                            !.ret = <<epsilon(call.arr[1], call.arr[2], call.arr[3])>>]
    /\ UNCHANGED <<pc, args, self, loc, exc, rng, run, prev, ext, bt>>

Call_BinomialCoefficient ==
    /\ call.fn = "BinomialCoefficient"
    /\ call.st = "called"
    /\ call' = [call EXCEPT !.st = "returned", !.ret = BinomialCoefficient(call.a, call.b)]
    /\ UNCHANGED <<pc, args, self, loc, exc, rng, run, prev, ext, bt>>

(***************************************************************************)
(* FastGB.buffersize and FastGB.onefourier (src/gwspace/FastGB.py).        *)
(* Frequencies enter as f0T2 = 2*f0*Tobs, so that f0*T is a half-integer   *)
(* and f0 = f0T2/(2*Tobs).  A complex number is a pair <<re, im>> and an   *)
(* array a sequence: the Python index i is the position i+1.               *)
(* libFastGB.ComputeXYZ_FD is a compiled collaborator: sample p of the     *)
(* array it fills for channel c is taken to be 100*c + p + 1, which names  *)
(* its own place.                                                          *)
(***************************************************************************)
MaxGbF == 6       \* f0T2 ranges over 17*(0 .. MaxGbF)
MaxGbKmin == 4    \* kmin ranges over 13*(0 .. MaxGbKmin)
MaxGbLen == 3     \* len(buffer[0]) ranges over 1 + 11*(0 .. MaxGbLen)

GbChannels == 3

(* 4*YRSID_SI, four sidereal years of 31558149.7635... s, rounded down *)
FourYears == 126232599

(* int(p/q) for q > 0: truncation towards zero *)
PyInt(p, q) == IF p >= 0 THEN p \div q ELSE 0 - ((0 - p) \div q)

(* lines 20-43; Tobs is a whole number of seconds *)
buffersize(Tobs, f0T2, oversample) ==
    LET mult == IF 4 * Tobs <= FourYears THEN 1
                ELSE IF 2 * Tobs <= FourYears THEN 2
                ELSE IF Tobs <= FourYears THEN 4
                ELSE 8
        N == IF f0T2 * 10 > 2 * Tobs THEN 1024 * mult
             ELSE IF f0T2 * 100 > 6 * Tobs THEN 512 * mult
             ELSE IF f0T2 * 100 > 2 * Tobs THEN 256 * mult
             ELSE IF f0T2 * 1000 > 2 * Tobs THEN 64 * mult
             ELSE 32 * mult
    IN  N * oversample

GbSample(c, p) == 100 * c + p + 1

(* a Python slice index against a length: negative counts from the end *)
PyIdx(i, n) == IF i < 0 THEN Max2(i + n, 0) ELSE Min2(i, n)

(* the Python indices x[b:e:step] selects in an array of length n *)
PySlice(b, e, step, n) ==
    LET start == PyIdx(b, n)
        stop == PyIdx(e, n)
        cnt == IF stop > start THEN (stop - start + step - 1) \div step ELSE 0
    IN  [k \in 1 .. cnt |-> start + step * (k - 1)]

(* a plausible slip: the left cut of "a" is not doubled *)
gb_left_not_doubled(beg, kmin) ==
    IF beg >= kmin THEN <<beg - kmin, 0>> ELSE <<0, kmin - beg>>

(* lines 100-101: begb, bega *)
gb_left(beg, kmin) ==
    IF beg >= kmin THEN <<beg - kmin, 0>> ELSE <<0, 2 * (kmin - beg)>>

(* line 102: endb, enda *)
gb_right(end, kmin, blen, alen) ==
    IF end - kmin <= blen THEN <<end - kmin, alen>>
    ELSE <<blen, alen - 2 * (end - kmin - blen)>>

(* the shape of x op y for one-dimensional x, y; -1 when they do not broadcast *)
BroadcastLen(n, m) == IF n = m THEN n ELSE IF n = 1 THEN m ELSE IF m = 1 THEN n ELSE -1

(***************************************************************************)
(* onefourier with params and a buffer given (lines 46-110).  buf is the   *)
(* tuple of the three arrays of the buffer, all of one length, and kmin    *)
(* their first bin.  The result holds the bounds and the buffer after the  *)
(* call.                                                                   *)
(***************************************************************************)
onefourier(Tobs, T, f0T2, oversample, kmin, buf) ==
    LET M == buffersize(Tobs, f0T2, oversample)
        blen == Len(buf[1])
        alen == 2 * M
        beg == PyInt(2 * PyInt(f0T2, 2) - M, 2)
        end == PyInt(f0T2 + M, 2)
        left == gb_left(beg, kmin)
        right == gb_right(end, kmin, blen, alen)
        begb == left[1]
        bega == left[2]
        endb == right[1]
        enda == right[2]
        dst == PySlice(begb, endb, 1, blen)
        sre == PySlice(bega, enda, 2, alen)
        sim == PySlice(bega + 1, enda, 2, alen)
        rlen == BroadcastLen(Len(sre), Len(sim))
        ok == rlen >= 0 /\ (rlen = Len(dst) \/ rlen = 1)
        src(c, n) == <<GbSample(c, sre[IF Len(sre) = 1 THEN 1 ELSE n]),
                       GbSample(c, sim[IF Len(sim) = 1 THEN 1 ELSE n])>>
        none == [raised |-> "none", M |-> M, beg |-> beg, end |-> end, begb |-> begb,
                 endb |-> endb, bega |-> bega, enda |-> enda, buffer |-> buf]
    IN  IF T # Tobs THEN [none EXCEPT !.raised = "NotImplementedError"]
        ELSE IF ~ok THEN [none EXCEPT !.raised = BroadcastError]
        ELSE [none EXCEPT !.buffer =
                 [c \in 1 .. GbChannels |->
                     [k \in 1 .. blen |->
                         IF \E n \in 1 .. Len(dst) : dst[n] = k - 1
                         THEN LET n == (k - 1) - dst[1] + 1
                              IN  <<buf[c][k][1] + src(c, IF rlen = 1 THEN 1 ELSE n)[1],
                                    buf[c][k][2] + src(c, IF rlen = 1 THEN 1 ELSE n)[2]>>
                         ELSE buf[c][k]]]]

(* what the buffer holds before the call: sums of earlier sources *)
GbBuffer(blen) == [c \in 1 .. GbChannels |-> [k \in 1 .. blen |-> <<(k + c) % 3, 0 - (k % 2)>>]]

(* call.arr = <<Tobs, T, f0T2, oversample, kmin, blen>> *)
GbCalls ==
    {[CallIdle EXCEPT !.fn = "onefourier", !.arr = <<q[1], q[1] + q[2], q[3], 1, q[4], q[5]>>,
                      !.st = "called"] :
        q \in ({40000} \X {0} \X {17 * i : i \in 0 .. MaxGbF} \X {13 * i : i \in 0 .. MaxGbKmin}
                  \X {1 + 11 * i : i \in 0 .. MaxGbLen})
              \cup ({40000000} \X {0, 1} \X {17 * i : i \in 1 .. 2} \X {0} \X {1 + 11 * MaxGbLen})}

Call_onefourier ==
    /\ call.fn = "onefourier"
    /\ call.st = "called"
    /\ \E r \in {onefourier(call.arr[1], call.arr[2], call.arr[3], call.arr[4], call.arr[5],
                            GbBuffer(call.arr[6]))} :
          call' = [call EXCEPT !.st = IF r.raised = "none" THEN "returned" ELSE "raised",
                               !.raised = r.raised,
                               !.ret = r]
    /\ UNCHANGED <<pc, args, self, loc, exc, rng, run, prev, ext, bt>>

(* the arguments of SGWB.__init__ (det is left at its default "TQ") *)
ArgsBase ==
    [blmax |-> 0, blm_vals |-> <<NInt(1)>>, nside_in |-> 1, fmin |-> 1, fmax |-> 2, fn |-> 2,
     Ttot |-> 2, tsegmid |-> 1, omega0 |-> 1, alpha |-> 1, fref |-> 1, H0 |-> 1]

(* what the libraries and collaborators outside src/ contribute *)
ExtBase == [sky |-> 1, resp |-> 1, L_T |-> 1, per_time |-> FALSE]

PipelineIdle ==
    /\ pc = "idle"
    /\ args = ArgsBase
    /\ self = SelfNew
    /\ loc = LocNew
    /\ exc = "none"
    /\ rng = 0
    /\ run = 0
    /\ prev = PrevNone
    /\ ext = ExtBase

BetaNone ==
    [blmax |-> 0, ii |-> 0, jj |-> 0, kk |-> 0, st |-> "idle", raised |-> "none",
     beta_vals |-> <<>>]

BetaIdle == bt = BetaNone

InitFn ==
    /\ call \in IdxCalls \cup BinomCalls \cup EpsCalls \cup GbCalls
    /\ PipelineIdle
    /\ BetaIdle

NextFn == Call_idx_2_alm \/ Call_BinomialCoefficient \/ Call_epsilon \/ Call_onefourier

SpecFn == InitFn /\ [][NextFn]_vars

(***************************************************************************)
(* C8.  IndexOutOfRange: idx_2_alm(lmax, ii) raises an error for every     *)
(* integer ii outside 0 <= ii < (lmax+1)^2, negative ii included, and      *)
(* never returns an (l, m) pair for such an index.                         *)
(* The code tests only ii >= (lmax+1)^2; a negative ii takes the           *)
(* "ii < alm_size" branch and healpy's getlm returns a pair for it.        *)
(***************************************************************************)
C8_RaisesOutsideRange ==
    (/\ call.fn = "idx_2_alm"
     /\ call.st # "called"
     /\ ~(0 <= call.b /\ call.b < (call.a + 1) * (call.a + 1)))
        => call.st = "raised"

(* The part of C8 the code does implement: an index at or above (lmax+1)^2 *)
(* raises, and an index inside the valid range returns a pair in range.    *)
IdxUpperBoundRaises ==
    (call.fn = "idx_2_alm" /\ call.st # "called")
        => /\ (call.b >= (call.a + 1) * (call.a + 1)) => call.st = "raised"
           /\ (0 <= call.b /\ call.b < (call.a + 1) * (call.a + 1))
                => /\ call.st = "returned"
                   /\ 0 <= call.ret[1] /\ call.ret[1] <= call.a
                   /\ Abs(call.ret[2]) <= call.ret[1]

(***************************************************************************)
(* C10.  BinomialCoefficient(n, k) returns n!/(k!(n-k)!) for every pair    *)
(* with 0 <= k < n and returns 0 for every other pair, in particular for   *)
(* k = n, k < 0 and k > n (the function's docstring).                      *)
(* The code's guard is 0 <= k <= n, so k = n returns 1.                    *)
(***************************************************************************)
RECURSIVE Pascal(_, _)
Pascal(n, k) ==
    IF k = 0 \/ k = n THEN 1 ELSE Pascal(n - 1, k - 1) + Pascal(n - 1, k)

C10_BinomialAsDocumented ==
    (call.fn = "BinomialCoefficient" /\ call.st = "returned")
        => call.ret = IF 0 <= call.b /\ call.b < call.a
                      THEN <<Pascal(call.a, call.b), 1>>
                      ELSE <<0, 1>>

(* What the code computes: the binomial coefficient on 0 <= k <= n. *)
BinomialAsCoded ==
    (call.fn = "BinomialCoefficient" /\ call.st = "returned")
        => call.ret = IF 0 <= call.b /\ call.b <= call.a
                      THEN <<Pascal(call.a, call.b), 1>>
                      ELSE <<0, 1>>

InitBeta ==
    /\ bt \in {BetaStart(blmax) : blmax \in 0 .. MaxLmax}
    /\ PipelineIdle
    /\ call = CallIdle

NextBeta == CalcBetaIter

SpecBeta == InitBeta /\ [][NextBeta]_vars

(* the (l, m) of an expanded index and the (L, M) of a power index *)
blm_lm(blmax, jj) == idx_2_alm(blmax, jj)

alm_LM(blmax, ii) == idx_2_alm(almax_of(blmax), ii)

BetaIdx(blmax) == 0 .. alm_size_of(blmax) - 1

FullIdx(blmax) == 0 .. full_size_of(blmax) - 1

(***************************************************************************)
(* C2.  Coupling symmetry: the tensor calc_beta returns satisfies          *)
(* beta[ii, jj, kk] = beta[ii, kk, jj] for every valid (ii, jj, kk).       *)
(***************************************************************************)
C2_CouplingSymmetry ==
    (bt.st = "returned")
        => \A ii \in BetaIdx(bt.blmax) : \A jj \in FullIdx(bt.blmax) : \A kk \in FullIdx(bt.blmax) :
              bt.beta_vals[ii][jj][kk] = bt.beta_vals[ii][kk][jj]

C2_Witness ==
    /\ bt.st = "returned"
    /\ \E ii \in BetaIdx(bt.blmax) : \E jj \in FullIdx(bt.blmax) : \E kk \in FullIdx(bt.blmax) :
          /\ jj # kk
          /\ blm_lm(bt.blmax, jj).l # blm_lm(bt.blmax, kk).l
          /\ bt.beta_vals[ii][jj][kk] # SZero

(***************************************************************************)
(* C3.  Selection rules: calc_beta never raises, and the entry of every    *)
(* (ii, jj, kk) whose decoded (L,M), (l1,m1), (l2,m2) have L < |l1-l2| or  *)
(* L > l1+l2 or M # m1+m2 is exactly 0.                                    *)
(***************************************************************************)
Disallowed(blmax, ii, jj, kk) ==
    LET a == blm_lm(blmax, jj)
        b == blm_lm(blmax, kk)
        c == alm_LM(blmax, ii)
    IN  \/ c.l < Abs(a.l - b.l)
        \/ c.l > a.l + b.l
        \/ c.m # a.m + b.m

C3_SelectionRules ==
    (bt.st # "idle")
        => /\ bt.st # "raised"
           /\ bt.st = "returned"
                => \A ii \in BetaIdx(bt.blmax) : \A jj \in FullIdx(bt.blmax) :
                      \A kk \in FullIdx(bt.blmax) :
                         Disallowed(bt.blmax, ii, jj, kk) => bt.beta_vals[ii][jj][kk] = SZero

(* a finished tensor holding both a disallowed triple with nonzero l's and *)
(* an allowed, nonzero entry away from the monopole                        *)
C3_Witness ==
    /\ bt.st = "returned"
    /\ \E ii \in BetaIdx(bt.blmax) : \E jj \in FullIdx(bt.blmax) : \E kk \in FullIdx(bt.blmax) :
          /\ Disallowed(bt.blmax, ii, jj, kk)
          /\ blm_lm(bt.blmax, jj).l > 0 /\ blm_lm(bt.blmax, kk).l > 0
    /\ \E ii \in BetaIdx(bt.blmax) : \E jj \in FullIdx(bt.blmax) : \E kk \in FullIdx(bt.blmax) :
          /\ ~Disallowed(bt.blmax, ii, jj, kk)
          /\ alm_LM(bt.blmax, ii).l > 0
          /\ bt.beta_vals[ii][jj][kk] # SZero

(***************************************************************************)
(* The pipeline: constructions of SGWB in one process, and calls of the    *)
(* methods calc_blm_full and blm_2_alm on a constructed instance.         *)
(***************************************************************************)
MaxFn == 2
MaxRuns == 2

BlmHead == {NInt(0), NInt(1), NFin(1, 1, 1, 0)}

BlmRest(pt, i) ==
    IF pt = 0 THEN NInt(0)
    ELSE IF pt = 1 THEN NFin(1, -1, 1, 0)
    ELSE IF i % 2 = 0 THEN NInt(1) ELSE NFin(0, 1, 1, 0)

(* blm_vals of the canonical length for blmax, one shorter and one longer *)
BlmSeqs(blmax) ==
    {[i \in 1 .. n |-> IF i = 1 THEN h ELSE BlmRest(pt, i)] :
        n \in {k \in {getsize(blmax) - 1, getsize(blmax), getsize(blmax) + 1} : k >= 0},
        h \in BlmHead, pt \in 0 .. 2}

(* runs that differ in the coefficients *)
BlmRuns ==
    UNION {{[args |-> [ArgsBase EXCEPT !.blmax = b, !.blm_vals = q], ext |-> ExtBase, rng |-> 0] :
                q \in BlmSeqs(b)} :
           b \in 0 .. MaxLmax}

(* runs that differ in the spectrum parameters and in the generator's state *)
SpectrumRuns ==
    {[args |-> [ArgsBase EXCEPT !.fmin = t[1], !.fmax = t[2], !.fn = t[3], !.Ttot = t[4],
                                !.tsegmid = t[5], !.alpha = t[6]],
      ext |-> ExtBase, rng |-> t[7]] :
        t \in {-1, 0, 1} \X {0, 2} \X (1 .. MaxFn) \X {0, 2} \X {0, 1} \X {0, 1} \X {0, 41}}

(* runs that differ in what healpy and the response collaborators return,   *)
(* over an isotropic and an anisotropic sky                                *)
ResponseRuns ==
    {[args |-> [ArgsBase EXCEPT !.fmin = t[1], !.omega0 = t[2], !.blmax = t[5],
                                !.blm_vals = IF t[5] = 0 THEN <<NInt(1)>>
                                             ELSE <<NInt(1), NFin(1, -1, 1, 0), NFin(0, 1, 1, 0)>>],
      ext |-> [sky |-> t[5], resp |-> t[3], L_T |-> t[4], per_time |-> FALSE], rng |-> 0] :
        t \in {0, 1} \X {1, 2} \X (0 .. 2) \X {1, 2} \X {0, 1}}

(* runs whose geometry provider gives one arm length for each time sample: *)
(* 1, 2 and npix = 12 samples                                              *)
ArmLengthRuns ==
    {[args |-> [ArgsBase EXCEPT !.Ttot = t[1]],
      ext |-> [sky |-> 1, resp |-> t[2], L_T |-> t[3], per_time |-> TRUE], rng |-> 0] :
        t \in {1, 2, nside2npix(ArgsBase.nside_in)} \X {1, 2} \X {1, 2}}

Init ==
    /\ \E sc \in BlmRuns \cup SpectrumRuns \cup ResponseRuns \cup ArmLengthRuns :
          /\ args = sc.args
          /\ ext = sc.ext
          /\ rng = sc.rng
    /\ pc = "copy_blms"
    /\ self = SelfNew
    /\ loc = LocNew
    /\ exc = "none"
    /\ run = 1
    /\ prev = PrevNone
    /\ bt = BetaNone
    /\ call = CallIdle

(* a further SGWB(...) with the same arguments, later in the same process *)
Rerun ==
    /\ pc = "done"
    /\ call.st = "idle"
    /\ run < MaxRuns
    /\ pc' = "copy_blms"
    /\ self' = SelfNew
    /\ loc' = LocNew
    /\ prev' = [Sgw_Gu |-> loc.Sgw_Gu, signal_in_Gu |-> self.signal_in_Gu]
    /\ run' = run + 1
    /\ UNCHANGED <<args, exc, rng, ext, bt, call>>

MethodFill(pt, i) == IF pt = 0 THEN NInt(1) ELSE NFin(i, i % 2, 1, 0)

(* blms_in of the canonical length of the instance, one shorter, one longer *)
MethodInputs(slf) ==
    {[i \in 1 .. n |-> MethodFill(pt, i)] :
        n \in {k \in {slf.blm_size - 1, slf.blm_size, slf.blm_size + 1} : k >= 0},
        pt \in 0 .. 1}

Call_calc_blm_full ==
    /\ pc = "done"
    /\ call.st = "idle"
    /\ \E blms_in \in MethodInputs(self) :
          \E r \in {calc_blm_full(self, blms_in)} :
          \E e \in {calc_blm_full_effect(self, blms_in)} :
              /\ call' = [call EXCEPT !.fn = "calc_blm_full",
                                      !.arr = blms_in,
                                      !.arr_out = e.blms_in,
                                      !.st = IF r.raised = "none" THEN "returned" ELSE "raised",
                                      !.raised = r.raised,
                                      !.ret = r.val]
              /\ self' = e.self
    /\ UNCHANGED <<pc, args, loc, exc, rng, run, prev, ext, bt>>

(* instance.calc_beta() on a constructed instance *)
Call_calc_beta ==
    /\ pc = "done"
    /\ call.st = "idle"
    /\ \E r \in {calc_beta_of(self)} :
          call' = [call EXCEPT !.fn = "calc_beta", !.st = "returned", !.ret = r]
    /\ UNCHANGED <<pc, args, self, loc, exc, rng, run, prev, ext, bt>>

Call_blm_2_alm ==
    /\ pc = "done"
    /\ call.st = "idle"
    /\ \E blms_in \in MethodInputs(self) :
          \E r \in {blm_2_alm(self, blms_in)} :
          \E e \in {blm_2_alm_effect(self, blms_in)} :
              /\ call' = [call EXCEPT !.fn = "blm_2_alm",
                                      !.arr = blms_in,
                                      !.arr_out = e.blms_in,
                                      !.st = IF r.raised = "none" THEN "returned" ELSE "raised",
                                      !.raised = r.raised,
                                      !.ret = r.val,
                                      !.steps = r.steps]
              /\ self' = e.self
    /\ UNCHANGED <<pc, args, loc, exc, rng, run, prev, ext, bt>>

Next ==
    \/ Ctor_CopyBlms
    \/ Ctor_IndexTables
    \/ Ctor_InjectAlm
    \/ Ctor_SynthMap
    \/ Ctor_Spectrum
    \/ Ctor_Response
    \/ Ctor_Orf
    \/ Ctor_Project
    \/ Rerun
    \/ Call_calc_blm_full
    \/ Call_blm_2_alm
    \/ Call_calc_beta

Spec == Init /\ [][Next]_vars

(***************************************************************************)
(* C1.  Isotropy reduction: for Lmax = 0 with a single non-zero monopole   *)
(* amplitude b, after the angular power is divided by alm[0]*sqrt(4 pi)    *)
(* and synthesised with Y00 = 1/sqrt(4 pi), every pixel of the normalised  *)
(* sky map equals 1.                                                       *)
(* The division leaves a00 = 1/sqrt(4 pi), and a00*Y00 = 1/(4 pi): the map *)
(* is uniform with the value 1/(4 pi), and it is its integral over the     *)
(* sphere, (4 pi/npix) * sum of the pixels (the weight of lines 99-100),   *)
(* that equals 1.                                                          *)
(***************************************************************************)
MonopoleRun ==
    /\ args.blmax = 0
    /\ Len(args.blm_vals) >= 1
    /\ args.blm_vals[1] # NZero
    /\ self.skymap_inj # <<>>

RECURSIVE NSum(_, _)
NSum(xs, n) == IF n = 0 THEN NZero ELSE NAdd(NSum(xs, n - 1), xs[n])

SkyIntegral(map) == NDiv(NMul(NFin(4, 0, 1, 2), NSum(map, Len(map))), NInt(Len(map)))

OrfIdx ==
    {q \in (1 .. NChannels) \X (1 .. NChannels) \X (1 .. Len(self.frange)) \X (1 .. Len(loc.tf))
           \X (1 .. loc.npix) : TRUE}

C4_OrfHermitian ==
    self.TQ_ORF # <<>> =>
        \A q \in OrfIdx :
            NumEq(self.TQ_ORF[q[1]][q[2]][q[3]][q[4]][q[5]],
                  NConj(self.TQ_ORF[q[2]][q[1]][q[3]][q[4]][q[5]]))

(* What holds of the code: the slice is Hermitian at every non-zero grid   *)
(* frequency.                                                              *)
OrfHermitianOffZero ==
    self.TQ_ORF # <<>> =>
        \A q \in OrfIdx :
            self.frange[q[3]] # NZero =>
                /\ Finite(self.TQ_ORF[q[1]][q[2]][q[3]][q[4]][q[5]])
                /\ NumEq(self.TQ_ORF[q[1]][q[2]][q[3]][q[4]][q[5]],
                         NConj(self.TQ_ORF[q[2]][q[1]][q[3]][q[4]][q[5]]))

(***************************************************************************)
(* C5.  Determinism of the spectrum generator: two runs of the pipeline    *)
(* with the same frequency grid, omega0, alpha, fref, H0 and Ttot produce  *)
(* identical Sgw_Gu and identical signal_in_Gu; the state of the random    *)
(* generator left by an earlier run changes nothing in a later one.        *)
(***************************************************************************)
C5_SeededSpectrumRepeats ==
    (run >= 2 /\ loc.Sgw_Gu # <<>>) =>
        /\ loc.Sgw_Gu = prev.Sgw_Gu
        /\ self.signal_in_Gu = prev.signal_in_Gu

C5_Witness ==
    /\ run = 2
    /\ pc = "done"
    /\ rng # RngSeeded(SpectrumSeed)
    /\ \A k1 \in 1 .. Len(loc.Sgw_Gu) :
          /\ Finite(loc.Sgw_Gu[k1].sig2)
          /\ loc.Sgw_Gu[k1].gre # 0 \/ loc.Sgw_Gu[k1].gim # 0
    /\ Len(loc.Sgw_Gu) = MaxFn
    /\ loc.Sgw_Gu = prev.Sgw_Gu

(***************************************************************************)
(* C6.  Size invariant of the expander: for every Lmax and every input of  *)
(* the canonical size |blm| = (Lmax+1)(Lmax+2)/2, calc_blm_full returns an *)
(* array of length 2|blm| - Lmax - 1 = (Lmax+1)^2, the length of bl_idx    *)
(* and bm_idx and the second and third dimensions of beta.                 *)
(***************************************************************************)
ExpandedLen(blmax) == 2 * (((blmax + 1) * (blmax + 2)) \div 2) - blmax - 1

C6_ExpandedSize ==
    /\ loc.blm_full # <<>> =>
          /\ Len(self.blms) = ((args.blmax + 1) * (args.blmax + 2)) \div 2
          /\ Len(loc.blm_full) = ExpandedLen(args.blmax)
          /\ Len(loc.blm_full) = (args.blmax + 1) * (args.blmax + 1)
          /\ Len(loc.blm_full) = Len(self.bl_idx)
          /\ Len(loc.blm_full) = Len(self.bm_idx)
          /\ Len(loc.blm_full) = loc.beta_shape[2]
          /\ Len(loc.blm_full) = loc.beta_shape[3]
    /\ (call.fn = "calc_blm_full"
        /\ Len(call.arr) = ((args.blmax + 1) * (args.blmax + 2)) \div 2) =>
          /\ call.st = "returned"
          /\ Len(call.ret) = ExpandedLen(args.blmax)
          /\ Len(call.ret) = (args.blmax + 1) * (args.blmax + 1)
          /\ Len(call.ret) = Len(self.bl_idx)
          /\ Len(call.ret) = Len(self.bm_idx)
          /\ Len(call.ret) = loc.beta_shape[2]
          /\ Len(call.ret) = loc.beta_shape[3]

C6_Witness ==
    /\ call.fn = "calc_blm_full"
    /\ call.st = "returned"
    /\ args.blmax = MaxLmax
    /\ Len(call.arr) = getsize(args.blmax)
    /\ Len(call.ret) = (MaxLmax + 1) * (MaxLmax + 1)
    /\ Len(loc.blm_full) = Len(call.ret)

(***************************************************************************)
(* C7.  InvalidSize on malformed input: a coefficient sequence whose       *)
(* length differs from (Lmax+1)(Lmax+2)/2, shorter or longer, given as     *)
(* blm_vals to the constructor or as blms_in to calc_blm_full, fails with  *)
(* the ValueError about the size and never yields an expanded array or a   *)
(* sky map.                                                                *)
(* The constructor reads only the first (Lmax+1)(Lmax+2)/2 entries of      *)
(* blm_vals: a longer sequence is cut silently and a shorter one raises    *)
(* IndexError; calc_blm_full has no size check at all.                     *)
(***************************************************************************)
C7_MalformedSizeRejected ==
    /\ (Len(args.blm_vals) # ((args.blmax + 1) * (args.blmax + 2)) \div 2
        /\ pc # "copy_blms") =>
          /\ pc = "raised"
          /\ exc = SizeError
          /\ loc.blm_full = <<>>
          /\ self.skymap_inj = <<>>
    /\ (call.fn = "calc_blm_full"
        /\ Len(call.arr) # ((self.blmax + 1) * (self.blmax + 2)) \div 2) =>
          /\ call.st = "raised"
          /\ call.raised = SizeError

(* What holds of the code: blm_2_alm, and only it, checks the size. *)
SizeCheckedInBlm2Alm ==
    (call.fn = "blm_2_alm" /\ Len(call.arr) # self.blm_size) =>
        /\ call.st = "raised"
        /\ call.raised = SizeError

(***************************************************************************)
(* C9.  InvalidSpectrumParameters: a construction with a non-positive grid *)
(* frequency (fmin <= 0 or fmax <= 0) or a zero step (tsegmid = 0) is      *)
(* rejected with an error at the entry of the spectrum stage, before Sgw   *)
(* is computed, and never goes on to a result holding inf or nan.          *)
(* The code validates nothing: with fmin = 0 the division by f^3 gives     *)
(* inf or nan in Sgw and the constructor goes on.                          *)
(***************************************************************************)
BadSpectrumParameters == args.fmin <= 0 \/ args.fmax <= 0 \/ args.tsegmid = 0

C9_SpectrumParametersRejected ==
    BadSpectrumParameters =>
        /\ pc \notin {"response", "orf", "project", "done"}
        /\ pc = "raised" => loc.Sgw = <<>>

(* What holds of the code: only the zero time step stops the constructor,  *)
(* with the ZeroDivisionError of np.arange.                                *)
OnlyZeroStepRaises ==
    (pc = "raised" /\ self.frange # <<>>) =>
        /\ exc = "ZeroDivisionError"
        /\ args.tsegmid = 0 \/ args.Ttot = 0

(***************************************************************************)
(* C11.  epsilon(i, j, k) is the Levi-Civita symbol: 0 whenever two of its *)
(* arguments are equal, 1 for every even permutation of (1,2,3) and -1 for *)
(* every odd one; swapping any two arguments negates the result.           *)
(***************************************************************************)
EvenPerms == {<<1, 2, 3>>, <<2, 3, 1>>, <<3, 1, 2>>}

OddPerms == {<<1, 3, 2>>, <<3, 2, 1>>, <<2, 1, 3>>}

C11_LeviCivita ==
    (call.fn = "epsilon" /\ call.st = "returned") =>
        LET i == call.arr[1]
            j == call.arr[2]
            k == call.arr[3]
            r == call.ret[1]
        IN  /\ (i = j \/ j = k \/ k = i) => r = 0
            /\ call.arr \in EvenPerms => r = 1
            /\ call.arr \in OddPerms => r = -1
            /\ epsilon(j, i, k) = 0 - r
            /\ epsilon(k, j, i) = 0 - r
            /\ epsilon(i, k, j) = 0 - r

C11_Witness ==
    /\ call.fn = "epsilon"
    /\ call.st = "returned"
    /\ call.arr = <<3, 1, 2>>
    /\ call.ret = <<1>>

(***************************************************************************)
(* C12.  Index bijection: for every lmax, idx_2_alm(lmax, .) on            *)
(* 0 <= ii < (lmax+1)^2 is a bijection onto {(l, m) : 0 <= l <= lmax,      *)
(* -l <= m <= l}; below the half-count getsize(lmax) it returns the        *)
(* canonical (l, m) of the index, m >= 0, which Alm.getidx inverts; at or  *)
(* above the half-count it returns only pairs with m < 0.  So the first    *)
(* getsize(almax) entries of the power array are the M >= 0 entries in     *)
(* canonical order.                                                        *)
(***************************************************************************)
ValidIdx(lmax) == 0 .. ((lmax + 1) * (lmax + 1) - 1)

AllLM(lmax) == {q \in (0 .. lmax) \X ((0 - lmax) .. lmax) : Abs(q[2]) <= q[1]}

DecodedLM(lmax) == {<<idx_2_alm(lmax, ii).l, idx_2_alm(lmax, ii).m>> : ii \in ValidIdx(lmax)}

C12_IndexBijection ==
    (call.fn = "idx_2_alm" /\ call.st # "called" /\ call.b \in ValidIdx(call.a)) =>
        /\ call.st = "returned"
        /\ call.ret \in AllLM(call.a)
        /\ \A ii \in ValidIdx(call.a) :
              ii # call.b => <<idx_2_alm(call.a, ii).l, idx_2_alm(call.a, ii).m>> # call.ret
        /\ DecodedLM(call.a) = AllLM(call.a)
        /\ call.b < getsize(call.a) =>
              /\ call.ret[2] >= 0
              /\ getidx(call.a, call.ret[1], call.ret[2]) = call.b
              /\ call.ret = <<getlm(call.a, call.b).l, getlm(call.a, call.b).m>>
        /\ call.b >= getsize(call.a) => call.ret[2] < 0

C12_Witness ==
    /\ call.fn = "idx_2_alm"
    /\ call.st = "returned"
    /\ call.a = 2
    /\ call.b = 6
    /\ call.ret = <<1, -1>>

(***************************************************************************)
(* C13.  For every lmax and every ii with getsize(lmax) <= ii <            *)
(* (lmax+1)^2, the offset index ii - getsize(lmax) + lmax + 1 lies in      *)
(* [lmax+1, getsize(lmax)-1] and decodes to m >= 1: the error 'Something   *)
(* wrong with ind -> (l, m) conversion' is never raised and the returned m *)
(* is strictly negative.                                                   *)
(***************************************************************************)
C13_ConversionErrorUnreachable ==
    (call.fn = "idx_2_alm" /\ call.st # "called") =>
        /\ call.raised # ConversionError
        /\ (getsize(call.a) <= call.b /\ call.b < (call.a + 1) * (call.a + 1)) =>
              LET off == call.b - getsize(call.a) + call.a + 1
              IN  /\ call.a + 1 <= off
                  /\ off <= getsize(call.a) - 1
                  /\ getlm(call.a, off).m >= 1
                  /\ call.st = "returned"
                  /\ call.ret[2] < 0

C13_Witness ==
    /\ call.fn = "idx_2_alm"
    /\ call.st = "returned"
    /\ call.a = MaxIdxLmax
    /\ call.b = (MaxIdxLmax + 1) * (MaxIdxLmax + 1) - 1
    /\ call.ret = <<MaxIdxLmax, 0 - MaxIdxLmax>>

(***************************************************************************)
(* C14.  Reality relation in the expanded array: for every input blm of    *)
(* the canonical size and every expanded index jj with decoded (l, m),     *)
(* calc_blm_full sets expanded[jj] = blm[l, m] when m >= 0 and             *)
(* expanded[jj] = (-1)^|m| * conj(blm[l, |m|]) when m < 0, blm[l, m] being *)
(* the input entry at the canonical index getidx(Lmax, l, m).              *)
(***************************************************************************)
(* (-1)^m * conj(x) written out on the parts of x *)
RealityImage(x, m) == IF m % 2 = 0 THEN [x EXCEPT !.im = 0 - x.im] ELSE [x EXCEPT !.re = 0 - x.re]

RealityHolds(blm, lmax, full) ==
    \A jj \in 0 .. (Len(full) - 1) :
        LET lm == idx_2_alm(lmax, jj)
        IN  /\ lm.raised = "none"
            /\ lm.m >= 0 => full[jj + 1] = blm[getidx(lmax, lm.l, lm.m) + 1]
            /\ lm.m < 0 =>
                  full[jj + 1] = RealityImage(blm[getidx(lmax, lm.l, 0 - lm.m) + 1], 0 - lm.m)

C14_RealityRelation ==
    /\ loc.blm_full # <<>> => RealityHolds(self.blms, args.blmax, loc.blm_full)
    /\ (call.fn = "calc_blm_full" /\ call.st = "returned" /\ Len(call.arr) = getsize(args.blmax))
          => RealityHolds(call.arr, args.blmax, call.ret)

C14_Witness ==
    /\ call.fn = "calc_blm_full"
    /\ call.st = "returned"
    /\ args.blmax = 1
    /\ call.arr = <<NFin(1, 1, 1, 0), NInt(2), NFin(3, 1, 1, 0)>>
    /\ call.ret[4] = NFin(-3, 1, 1, 0)
    /\ loc.blm_full # <<>>

(***************************************************************************)
(* C15.  Parity selection rule: for every valid (ii, jj, kk) with decoded  *)
(* L, l1, l2, calc_beta stores exactly 0 whenever l1 + l2 + L is odd (the  *)
(* factor CG(l1,0,l2,0,L,0) vanishes), whatever m1, m2 and M are.          *)
(***************************************************************************)
OddParity(blmax, ii, jj, kk) ==
    (blm_lm(blmax, jj).l + blm_lm(blmax, kk).l + alm_LM(blmax, ii).l) % 2 = 1

C15_ParityRule ==
    (bt.st = "returned")
        => \A ii \in BetaIdx(bt.blmax) : \A jj \in FullIdx(bt.blmax) : \A kk \in FullIdx(bt.blmax) :
              OddParity(bt.blmax, ii, jj, kk) => bt.beta_vals[ii][jj][kk] = SZero

(* a finished tensor with an odd triple that the triangle rule and M = m1 + m2 *)
(* allow, so that only the parity makes its entry 0                         *)
C15_Witness ==
    /\ bt.st = "returned"
    /\ \E ii \in BetaIdx(bt.blmax) : \E jj \in FullIdx(bt.blmax) : \E kk \in FullIdx(bt.blmax) :
          /\ OddParity(bt.blmax, ii, jj, kk)
          /\ ~Disallowed(bt.blmax, ii, jj, kk)
          /\ CG(blm_lm(bt.blmax, jj).l, blm_lm(bt.blmax, jj).m,
                blm_lm(bt.blmax, kk).l, blm_lm(bt.blmax, kk).m,
                alm_LM(bt.blmax, ii).l, alm_LM(bt.blmax, ii).m) # SZero
          /\ bt.beta_vals[ii][jj][kk] = SZero

(***************************************************************************)
(* C16.  Eager detection: when blm_2_alm is entered with a coefficient     *)
(* array of the wrong size, the size error is raised at stage entry: the   *)
(* size test is the first step of the call, and neither calc_beta nor      *)
(* calc_blm_full nor the einsum contraction has run when it is raised.     *)
(* In the code the first statement of blm_2_alm is                         *)
(* beta_vals = self.calc_beta() (line 139) and the size test follows it    *)
(* (line 140): the whole coupling tensor is computed before the error.     *)
(***************************************************************************)
C16_SizeErrorBeforeCalcBeta ==
    (call.fn = "blm_2_alm" /\ Len(call.arr) # self.blm_size) =>
        /\ call.st = "raised"
        /\ call.raised = SizeError
        /\ call.steps = <<"size_check">>

(* What holds of the code: the error comes after calc_beta and before the *)
(* expansion and the contraction.                                          *)
SizeErrorAfterCalcBeta ==
    (call.fn = "blm_2_alm" /\ Len(call.arr) # self.blm_size) =>
        /\ call.st = "raised"
        /\ call.raised = SizeError
        /\ call.steps = <<"calc_beta", "size_check">>

C16_Witness ==
    /\ call.fn = "blm_2_alm"
    /\ call.st = "raised"
    /\ self.blm_size = 1
    /\ Len(call.arr) = 2
    /\ call.steps[1] = "calc_beta"

(***************************************************************************)
(* C17.  The coupling tensor is a pure function of Lmax: a call of         *)
(* calc_beta on a constructed instance leaves every attribute of the       *)
(* instance as it was, and the tensor it returns is the one calc_beta      *)
(* returns on an instance of the same blmax holding any other coefficient  *)
(* values.                                                                 *)
(***************************************************************************)
AltBlms(slf) ==
    {[i \in 1 .. slf.blm_size |-> v] : v \in {NZero, NInt(1), NFin(2, 1, 1, 0)}}

C17_BetaPureInLmax ==
    [][(call.fn # "calc_beta" /\ call'.fn = "calc_beta") =>
          /\ self' = self
          /\ \A q \in AltBlms(self) :
                call'.ret = calc_beta_of([self EXCEPT !.blms = q])]_vars

(* the tensor of blmax = 1 returned on an instance whose own coefficients  *)
(* are not the ones of a monopole                                          *)
C17_Witness ==
    /\ call.fn = "calc_beta"
    /\ call.st = "returned"
    /\ self.blmax = 1
    /\ self.blms[1] = NZero
    /\ call.ret[0][0][0] # SZero
    /\ \E q \in AltBlms(self) : q # self.blms

(***************************************************************************)
(* C18.  Signal projection: for all channels a, b, every frequency index f *)
(* and time index t of a finished construction,                            *)
(*   signal_SGWB[a,b,f,t] = sum over every pixel p of                      *)
(*                          (4 pi/npix) * C(f) * skymap[p] * TQ_ORF[a,b,f,t,p] *)
(* with C(f) = (2/Ttot) * S(f) * conj(S(f)) for the stochastic spectrum S  *)
(* = Sgw_Gu: the weight 4 pi/npix is the same for every pixel and C(f)     *)
(* is the same for every t, p and channel pair.                            *)
(***************************************************************************)
SpectralWeight(f) == cross_term(loc.Sgw_Gu[f], args.Ttot)

UniformWeight == NFin(4, 0, nside2npix(args.nside_in), 2)

RECURSIVE WeightedSkySum(_, _, _)
WeightedSkySum(Cf, orf, p) ==
    IF p = 0 THEN NZero
    ELSE NAdd(WeightedSkySum(Cf, orf, p - 1),
              NMul(UniformWeight, NMul(NMul(Cf, self.skymap_inj[p]), orf[p])))

C18_SignalProjection ==
    (pc = "done" /\ call.st = "idle") =>
        \A a \in 1 .. NChannels : \A b \in 1 .. NChannels :
        \A f \in 1 .. args.fn : \A t \in 1 .. Len(loc.tf) :
            self.signal_SGWB[a][b][f][t]
                = WeightedSkySum(SpectralWeight(f), self.TQ_ORF[a][b][f][t],
                                 nside2npix(args.nside_in))

(* a finished construction over an anisotropic sky and more than one time  *)
(* segment, with a finite signal entry that is not 0                       *)
C18_Witness ==
    /\ pc = "done"
    /\ call.st = "idle"
    /\ Len(loc.tf) >= 2
    /\ \E p \in 1 .. Len(self.skymap_inj) : self.skymap_inj[p] # self.skymap_inj[1]
    /\ \E p \in 1 .. Len(self.skymap_inj) :
          self.TQ_ORF[1][2][1][1][p] # self.TQ_ORF[1][2][1][1][1]
    /\ Finite(self.signal_SGWB[1][2][1][1])
    /\ self.signal_SGWB[1][2][1][1] # NZero

(***************************************************************************)
(* C19.  Response scaling with a time-dependent arm length: every entry    *)
(* TQ_ORF[m,n,f,t,p] is the accumulated outer-product term divided by      *)
(* (2*pi*frange[f]*L)^2, L being the arm length of time segment t; when    *)
(* the geometry provider gives one arm length per time sample, L(t) is     *)
(* applied along the time axis, and the stage raises nothing.              *)
(* In the code a one-dimensional det.L_T is multiplied into                *)
(* frange[None, None, :, None, None] and so lands on the last axis, the    *)
(* pixel axis: the division raises the broadcasting ValueError unless the  *)
(* number of time samples is 1 or npix, and with npix time samples entry   *)
(* [m,n,f,t,p] is divided with L(p), the arm length of sample p.           *)
(***************************************************************************)
ArmLengthAt(t) == det_L_T(ext, loc.tf).v[IF ext.per_time THEN t ELSE 1]

(* the sample whose arm length scales entry (t, l) when L_T lies on axis *)
ScalingSample(axis, t, l) ==
    IF axis = "time" THEN t ELSE IF Len(loc.tf) = 1 THEN 1 ELSE l

OrfScaledAlong(axis) ==
    \A m \in 1 .. NChannels : \A n \in 1 .. NChannels :
    \A j \in 1 .. Len(self.frange) : \A t \in 1 .. Len(loc.tf) : \A l \in 1 .. loc.npix :
        self.TQ_ORF[m][n][j][t][l]
            = orf_entry(self.TQresponse_plus, self.TQresponse_cross, self.frange[j],
                        ArmLengthAt(ScalingSample(axis, t, l)), m, n, j, t, l)

OrfIsSet == pc \in {"project", "done"} /\ call.st = "idle"

C19_ArmLengthAlongTime ==
    /\ exc # BroadcastError
    /\ OrfIsSet => OrfScaledAlong("time")

(* What holds of the code: one arm length for all times scales as stated,  *)
(* one per time sample is an error or is applied along the pixel axis.     *)
ScalarArmLengthScales ==
    ~ext.per_time =>
        /\ exc # BroadcastError
        /\ OrfIsSet => OrfScaledAlong("time")

ArmLengthAlongPixels ==
    /\ (exc = BroadcastError) => (ext.per_time /\ Len(loc.tf) \notin {1, loc.npix})
    /\ (OrfIsSet /\ ext.per_time) => OrfScaledAlong("pixel")

(* one arm length per time sample, as many samples as pixels: the entry of *)
(* the first time segment and second pixel is scaled with L of sample 2    *)
C19_Witness ==
    /\ OrfIsSet
    /\ ext.per_time
    /\ Len(loc.tf) = loc.npix
    /\ self.TQ_ORF[1][1][1][1][2]
         = orf_entry(self.TQresponse_plus, self.TQresponse_cross, self.frange[1],
                     ArmLengthAt(2), 1, 1, 1, 1, 2)
    /\ self.TQ_ORF[1][1][1][1][2]
         # orf_entry(self.TQresponse_plus, self.TQresponse_cross, self.frange[1],
                     ArmLengthAt(1), 1, 1, 1, 1, 2)

(***************************************************************************)
(* The response loop of lines 85-94, one (pixel i, frequency j) work item  *)
(* per step.  Work item k of the loop order is pixel k div nf, frequency   *)
(* k mod nf.  The items are dealt to Len(loc.wpos) workers, worker w       *)
(* taking the items w-1, w-1+W, ... in turn; loc.wpos[w] counts the items  *)
(* worker w has finished, and the workers interleave freely.  One worker   *)
(* is the sequential loop of the code.                                     *)
(***************************************************************************)
MaxWorkers == 2

(* lines 85-86: np.zeros((3, nf, nt, npix), dtype="complex") *)
resp_zeros(nf, nt, npix) ==
    [c \in 1 .. NChannels |-> [j \in 1 .. nf |-> [t \in 1 .. nt |-> [i \in 1 .. npix |-> NZero]]]]

(* a plausible slip: the item writes T[:, :, :, i], the slices of every frequency *)
item_write_all_freq(T, resp, pol, i, j) ==
    [c \in DOMAIN T |->
        [jj \in DOMAIN T[c] |->
            [t \in DOMAIN T[c][jj] |->
                [ii \in DOMAIN T[c][jj][t] |->
                    IF ii = i THEN RespVal(resp, pol, c, j, t, i) ELSE T[c][jj][t][ii]]]]]

(* lines 91 and 94: T[:, j, :, i] = TQxyz, every other entry left as it is *)
item_write(T, resp, pol, i, j) ==
    [c \in DOMAIN T |->
        [jj \in DOMAIN T[c] |->
            [t \in DOMAIN T[c][jj] |->
                [ii \in DOMAIN T[c][jj][t] |->
                    IF ii = i /\ jj = j THEN RespVal(resp, pol, c, j, t, i)
                    ELSE T[c][jj][t][ii]]]]]

ItemCount == loc.npix * Len(self.frange)

ItemPixel(k) == (k \div Len(self.frange)) + 1

ItemFreq(k) == (k % Len(self.frange)) + 1

WorkerItem(w) == (w - 1) + Len(loc.wpos) * loc.wpos[w]

Resp_WorkItem ==
    /\ pc = "resp_loop"
    /\ \E w \in 1 .. Len(loc.wpos) :
          /\ WorkerItem(w) < ItemCount
          /\ self' = [self EXCEPT
                        !.TQresponse_plus = item_write(self.TQresponse_plus, ext.resp, 0,
                                                       ItemPixel(WorkerItem(w)),
                                                       ItemFreq(WorkerItem(w))),
                        !.TQresponse_cross = item_write(self.TQresponse_cross, ext.resp, 1,
                                                        ItemPixel(WorkerItem(w)),
                                                        ItemFreq(WorkerItem(w)))]
          /\ loc' = [loc EXCEPT !.wpos[w] = loc.wpos[w] + 1]
          /\ pc' = IF \A v \in 1 .. Len(loc.wpos) :
                         (v - 1) + Len(loc.wpos) * (loc.wpos[v] + (IF v = w THEN 1 ELSE 0))
                             >= ItemCount
                   THEN "resp_done" ELSE "resp_loop"
    /\ UNCHANGED <<args, exc, rng, run, prev, ext, bt, call>>

(* the state at line 87: the grids are set and both tensors are zeros *)
InitResp ==
    /\ \E n \in 1 .. MaxFn : args = [ArgsBase EXCEPT !.fn = n]
    /\ \E r \in 0 .. 2 : ext = [ExtBase EXCEPT !.resp = r]
    /\ \E W \in 1 .. MaxWorkers :
          loc = [LocNew EXCEPT !.tf = arange(args.Ttot, args.tsegmid),
                               !.npix = nside2npix(args.nside_in),
                               !.wpos = [w \in 1 .. W |-> 0]]
    /\ self = [SelfNew EXCEPT
                 !.frange = linspace(args.fmin, args.fmax, args.fn),
                 !.TQresponse_plus = resp_zeros(args.fn, Len(loc.tf), loc.npix),
                 !.TQresponse_cross = resp_zeros(args.fn, Len(loc.tf), loc.npix)]
    /\ pc = "resp_loop"
    /\ exc = "none"
    /\ rng = 0
    /\ run = 1
    /\ prev = PrevNone
    /\ bt = BetaNone
    /\ call = CallIdle

NextResp == Resp_WorkItem

SpecResp == InitResp /\ [][NextResp]_vars

(***************************************************************************)
(* C20.  Independent work items: each (pixel i, frequency j) work item of  *)
(* the response loop writes only TQresponse_plus[:, j, :, i] and           *)
(* TQresponse_cross[:, j, :, i]; the slices of distinct items are          *)
(* disjoint, each is written once, and no item reads what another wrote.   *)
(* So at every point of every interleaving the slice of an item that has   *)
(* run holds that item's response and the slice of an item that has not    *)
(* run is still zero, and when all items have run both tensors are the     *)
(* ones the sequential loop (pixels outside, frequencies inside) leaves.   *)
(***************************************************************************)
ItemDone(k) ==
    LET w == (k % Len(loc.wpos)) + 1 IN k < (w - 1) + Len(loc.wpos) * loc.wpos[w]

RECURSIVE SequentialLoop(_, _, _)
SequentialLoop(T0, pol, k) ==
    IF k = 0 THEN T0
    ELSE item_write(SequentialLoop(T0, pol, k - 1), ext.resp, pol,
                    ItemPixel(k - 1), ItemFreq(k - 1))

SliceAsWritten(T, pol, k) ==
    \A c \in 1 .. NChannels : \A t \in 1 .. Len(loc.tf) :
        T[c][ItemFreq(k)][t][ItemPixel(k)]
            = IF ItemDone(k)
              THEN RespVal(ext.resp, pol, c, ItemFreq(k), t, ItemPixel(k))
              ELSE NZero

C20_WorkItemsIndependent ==
    /\ (pc \in {"resp_loop", "resp_done"}) =>
          \A k \in 0 .. ItemCount - 1 :
              /\ SliceAsWritten(self.TQresponse_plus, 0, k)
              /\ SliceAsWritten(self.TQresponse_cross, 1, k)
    /\ (pc = "resp_done") =>
          /\ self.TQresponse_plus
               = SequentialLoop(resp_zeros(Len(self.frange), Len(loc.tf), loc.npix), 0, ItemCount)
          /\ self.TQresponse_cross
               = SequentialLoop(resp_zeros(Len(self.frange), Len(loc.tf), loc.npix), 1, ItemCount)

(* several workers, more than one frequency, a later item of the loop      *)
(* order finished while an earlier one has not run yet                     *)
C20_Witness ==
    /\ pc = "resp_loop"
    /\ Len(loc.wpos) >= 2
    /\ Len(self.frange) >= 2
    /\ \E k \in 0 .. ItemCount - 1 : \E h \in 0 .. ItemCount - 1 :
          /\ h < k
          /\ ItemDone(k)
          /\ ~ItemDone(h)
          /\ ItemPixel(h) = ItemPixel(k)
          /\ self.TQresponse_plus[1][ItemFreq(k)][1][ItemPixel(k)] # NZero

(***************************************************************************)
(* C21.  Immutability: a call of calc_blm_full or blm_2_alm leaves the     *)
(* caller's array blms_in and the instance (self.blms, bl_idx, bm_idx and  *)
(* every other attribute) as they were, what it returns being an array of  *)
(* its own; and no step of a construction changes blms, skymap_inj,        *)
(* frange, signal_in_Gu or TQ_ORF once the stage that produced it is over. *)
(***************************************************************************)
StageNo(p) ==
    CASE p = "copy_blms" -> 1
      [] p = "index_tables" -> 2
      [] p = "inject_alm" -> 3
      [] p = "synth_map" -> 4
      [] p = "spectrum" -> 5
      [] p = "response" -> 6
      [] p = "orf" -> 7
      [] p = "project" -> 8
      [] OTHER -> 9

(* the artifacts whose producing stage is over when stage p is the next to run *)
Produced(p) ==
    [blms |-> StageNo(p) > 1, skymap_inj |-> StageNo(p) > 4, frange |-> StageNo(p) > 5,
     signal_in_Gu |-> StageNo(p) > 5, TQ_ORF |-> StageNo(p) > 7]

MethodStep ==
    call.st = "idle" /\ call'.fn \in {"calc_blm_full", "blm_2_alm"}

C21_Immutability ==
    [][/\ MethodStep => (call'.arr_out = call'.arr /\ self' = self)
       /\ (run' = run) =>
             /\ Produced(pc).blms => self'.blms = self.blms
             /\ Produced(pc).skymap_inj => self'.skymap_inj = self.skymap_inj
             /\ Produced(pc).frange => self'.frange = self.frange
             /\ Produced(pc).signal_in_Gu => self'.signal_in_Gu = self.signal_in_Gu
             /\ Produced(pc).TQ_ORF => self'.TQ_ORF = self.TQ_ORF]_vars

(* a call that returned an expanded array with conjugated entries different *)
(* from their sources, on an instance whose construction ran to its end    *)
C21_Witness ==
    /\ pc = "done"
    /\ call.fn = "calc_blm_full"
    /\ call.st = "returned"
    /\ self.blmax = 1
    /\ call.arr_out = call.arr
    /\ call.ret[4] # call.arr[3]
    /\ self.TQ_ORF # <<>>

(***************************************************************************)
(* C22.  The angular-power index range is consistent: alm_size =           *)
(* (2*blmax+1)^2 equals 2*getsize(2*blmax) - 2*blmax - 1, the first axis   *)
(* of the tensor calc_beta fills is range(alm_size), no first-axis index   *)
(* of the loop makes idx_2_alm(almax, ii) raise, and the decoded (L, M)    *)
(* are each pair with 0 <= L <= 2*blmax, -L <= M <= L exactly once.        *)
(***************************************************************************)
FirstAxis == DOMAIN bt.beta_vals

C22_AngularIndexRange ==
    /\ (bt.st # "idle") =>
          /\ alm_size_of(bt.blmax)
               = 2 * getsize(almax_of(bt.blmax)) - almax_of(bt.blmax) - 1
          /\ bt.st # "raised"
          /\ bt.ii < alm_size_of(bt.blmax)
          /\ idx_2_alm(almax_of(bt.blmax), bt.ii).raised = "none"
    /\ (bt.st = "returned") =>
          /\ FirstAxis = 0 .. (alm_size_of(bt.blmax) - 1)
          /\ \A ii \in FirstAxis :
                <<alm_LM(bt.blmax, ii).l, alm_LM(bt.blmax, ii).m>> \in AllLM(almax_of(bt.blmax))
          /\ \A q \in AllLM(almax_of(bt.blmax)) :
                Cardinality({ii \in FirstAxis :
                                <<alm_LM(bt.blmax, ii).l, alm_LM(bt.blmax, ii).m>> = q}) = 1

(* the loop of blmax = 1 at its last first-axis index, which decodes to    *)
(* L = 2, M = -2                                                           *)
C22_Witness ==
    /\ bt.st = "loop"
    /\ bt.blmax = 1
    /\ bt.ii = alm_size_of(bt.blmax) - 1
    /\ alm_LM(bt.blmax, bt.ii).l = 2
    /\ alm_LM(bt.blmax, bt.ii).m = -2

(***************************************************************************)
(* C23.  The final signal matrix is Hermitian in its channel pair: for all *)
(* a, b, f, t of a finished construction signal_SGWB[a,b,f,t] ==           *)
(* conj(signal_SGWB[b,a,f,t]), and each diagonal entry signal_SGWB[a,a,f,t]*)
(* has zero imaginary part.                                                *)
(* The constructor accepts a grid holding the frequency 0 (C9) and         *)
(* coefficients whose angular power has a zero monopole: the entries are   *)
(* then nan, and nan is not == to its conjugate nor of imaginary part 0.   *)
(***************************************************************************)
SignalIdx ==
    {q \in (1 .. NChannels) \X (1 .. NChannels) \X (1 .. Len(self.frange)) \X (1 .. Len(loc.tf)) :
        TRUE}

ZeroImag(x) == Finite(x) /\ x.im = 0

C23_SignalHermitian ==
    (pc = "done" /\ call.st = "idle") =>
        \A q \in SignalIdx :
            /\ NumEq(self.signal_SGWB[q[1]][q[2]][q[3]][q[4]],
                     NConj(self.signal_SGWB[q[2]][q[1]][q[3]][q[4]]))
            /\ ZeroImag(self.signal_SGWB[q[1]][q[1]][q[3]][q[4]])

(* What holds of the code: on a grid of positive frequencies and a finite  *)
(* sky map the signal is finite and Hermitian with a real diagonal.        *)
SignalHermitianOnValidInput ==
    (pc = "done" /\ call.st = "idle") =>
        \A q \in SignalIdx :
            (/\ self.frange[q[3]].re > 0
             /\ \A p \in 1 .. Len(self.skymap_inj) : Finite(self.skymap_inj[p])) =>
                /\ Finite(self.signal_SGWB[q[1]][q[2]][q[3]][q[4]])
                /\ NumEq(self.signal_SGWB[q[1]][q[2]][q[3]][q[4]],
                         NConj(self.signal_SGWB[q[2]][q[1]][q[3]][q[4]]))
                /\ ZeroImag(self.signal_SGWB[q[1]][q[1]][q[3]][q[4]])

(* a finished construction on a grid starting at 0 whose first diagonal    *)
(* entry is not finite, the entries of the second frequency being finite   *)
C23_Witness ==
    /\ pc = "done"
    /\ call.st = "idle"
    /\ self.frange[1] = NZero
    /\ Len(self.frange) >= 2
    /\ self.frange[2].re > 0
    /\ ~Finite(self.signal_SGWB[1][1][1][1])
    /\ Finite(self.signal_SGWB[1][2][2][1])
    /\ self.signal_SGWB[1][2][2][1] # NZero

(***************************************************************************)
(* C24.  FastGB.onefourier buffer alignment: for a call with a buffer of   *)
(* length blen starting at bin kmin whose source window [beg, end), of     *)
(* end - beg = M bins, overlaps [kmin, kmin + blen), the call returns,     *)
(* 0 <= begb <= endb <= blen, 0 <= bega <= enda <= 2M and endb - begb =    *)
(* (enda - bega)/2; buffer bin begb + n receives the source complex sample *)
(* bega/2 + n, which is the same absolute frequency bin; and the buffer    *)
(* bins outside [begb, endb) are left as they were.                        *)
(***************************************************************************)
GbOverlap ==
    /\ call.fn = "onefourier"
    /\ call.st # "called"
    /\ call.arr[1] = call.arr[2]
    /\ call.ret.end - call.ret.beg = call.ret.M
    /\ call.ret.beg < call.arr[5] + call.arr[6]
    /\ call.ret.end > call.arr[5]

C24_BufferAlignment ==
    GbOverlap =>
        LET r == call.ret
            kmin == call.arr[5]
            blen == call.arr[6]
            before == GbBuffer(blen)
        IN  /\ call.st = "returned"
            /\ 0 <= r.begb /\ r.begb <= r.endb /\ r.endb <= blen
            /\ 0 <= r.bega /\ r.bega <= r.enda /\ r.enda <= 2 * r.M
            /\ r.bega % 2 = 0
            /\ 2 * (r.endb - r.begb) = r.enda - r.bega
            /\ kmin + r.begb = r.beg + (r.bega \div 2)
            /\ \A c \in 1 .. GbChannels : \A k \in 0 .. blen - 1 :
                  IF r.begb <= k /\ k < r.endb
                  THEN LET n == k - r.begb
                       IN  r.buffer[c][k + 1]
                             = <<before[c][k + 1][1] + GbSample(c, r.bega + 2 * n),
                                 before[c][k + 1][2] + GbSample(c, r.bega + 2 * n + 1)>>
                  ELSE r.buffer[c][k + 1] = before[c][k + 1]

(* a window cut on both sides by a buffer of more than one bin *)
C24_Witness ==
    /\ GbOverlap
    /\ call.st = "returned"
    /\ call.ret.beg < call.arr[5]
    /\ call.ret.end > call.arr[5] + call.arr[6]
    /\ call.arr[6] > 1
    /\ call.ret.begb = 0
    /\ call.ret.endb = call.arr[6]
    /\ call.ret.bega > 0
    /\ call.ret.enda < 2 * call.ret.M

====
